---- MODULE Spec2Model ----
(***************************************************************************)
(* A model of the recursive ray tracer: Cube::ray_intersect (cube.rs),     *)
(* offset_origin, reflect, refract, cast_shadow, cast_ray and render       *)
(* (main.rs).                                                              *)
(*                                                                         *)
(* Numbers.  f32 values are modelled by exact arithmetic:                  *)
(*   - lengths are integers in units of 1e-4 (so ORIGIN_BIAS = 1 and the   *)
(*     face tolerance epsilon = 1);                                        *)
(*   - a point is a record [x, y, z, w] standing for (x/w, y/w, z/w),      *)
(*     w > 0, kept in lowest terms;                                        *)
(*   - a ray direction is an integer vector D standing for the unit vector *)
(*     D/|D| the code passes around: `.normalized()` is the identity on    *)
(*     this representation, and a ray parameter t of the code is           *)
(*     tD * |D| for the model's parameter tD (a "distance" of the model is *)
(*     measured in units of |D|, which is the same for every cube tested   *)
(*     against one ray);                                                   *)
(*   - a ray parameter is an extended rational [n, d]: d > 0 is n/d in     *)
(*     lowest terms, [1,0] is +inf, [-1,0] is -inf and [0,0] is NaN, with  *)
(*     IEEE comparison and Rust's f32::min / f32::max;                     *)
(*   - colours and weights are fixed-point integers in units of 1/100.     *)
(* f32 rounding is not modelled.                                           *)
(***************************************************************************)
EXTENDS Integers, Sequences, FiniteSets, TLC

VARIABLES
    objects,      \* the scene: a sequence of cubes (objects: &[Cube])
    light,        \* the light (light: &Light)
    ray,          \* the input ray of the operation under study
    isect,        \* result of Cube::ray_intersect applied to objects[1] and ray
    shadow,       \* result of cast_shadow for the hit in isect
    stack,        \* cast_ray's call stack, innermost call last
    result,       \* what the depth-0 cast_ray returned
    calls,        \* number of cast_ray calls made for the primary ray
    leaves,       \* number of cast_ray calls that returned without recursing
    returned,     \* the latest return of a cast_ray call: depth, path, colour
    refracted,    \* result of refract applied to ray.direction and isect
    pixel_buffer, \* render's temporary buffer
    framebuffer,  \* the framebuffer render writes at the end
    row_x,        \* per row task: next x to compute
    copy_i,       \* render's position in the final copy loop
    layers,       \* the layers given to create_cubes_from_layers
    emissive_sum, \* cast_ray's sum over the emissive cubes for the hit in isect
    sample,       \* the texture and the pixel coordinates cast_ray asks it for
    phase         \* which operation the behaviour is in

vars == <<objects, light, ray, isect, shadow, stack, result, calls, leaves,
          returned, refracted, pixel_buffer, framebuffer, row_x, copy_i, layers,
          emissive_sum, sample, phase>>

----------------------------------------------------------------------------
(* Bounds of the model *)

\* half the edge of every cube of the model, in units of 1e-4
CubeHalf == 2

\* ray directions tested against one cube have components in -MaxDir..MaxDir
MaxDir == 2

(* Program constants *)

\* ORIGIN_BIAS = 1e-4, in units of 1e-4
ORIGIN_BIAS == 1

\* epsilon = 0.0001 of ray_intersect, in units of 1e-4
epsilon == 1

\* cast_ray returns the sky for depth > 3
MaxDepth == 3

\* the emissive gather takes centres closer than 10.0 and farther than 0.01,
\* in units of 1e-4
EMISSIVE_FAR == 100000

EMISSIVE_NEAR == 100

----------------------------------------------------------------------------
(* Integers *)

Abs(a) == IF a < 0 THEN -a ELSE a

RECURSIVE Gcd(_, _)
Gcd(a, b) == IF b = 0 THEN Abs(a) ELSE Gcd(b, a % Abs(b))

\* the r in lo..hi with r * r <= n < (r + 1) * (r + 1), by bisection
RECURSIVE SqrtIn(_, _, _)
SqrtIn(n, lo, hi) ==
    IF lo >= hi THEN lo
    ELSE LET mid == (lo + hi + 1) \div 2
         IN  IF mid * mid <= n THEN SqrtIn(n, mid, hi) ELSE SqrtIn(n, lo, mid - 1)

\* floor of the square root of n, 0 <= n < 2^31
ISqrt(n) == SqrtIn(n, 0, 46340)

----------------------------------------------------------------------------
(* Vector3 *)

Vec(a, b, c) == [x |-> a, y |-> b, z |-> c]

VZero == Vec(0, 0, 0)

VAdd(a, b) == Vec(a.x + b.x, a.y + b.y, a.z + b.z)

VSub(a, b) == Vec(a.x - b.x, a.y - b.y, a.z - b.z)

VScale(a, k) == Vec(a.x * k, a.y * k, a.z * k)

VNeg(a) == Vec(-a.x, -a.y, -a.z)

Dot(a, b) == a.x * b.x + a.y * b.y + a.z * b.z

\* a direction in lowest terms: the same unit vector
DirNorm(v) ==
    LET g == Gcd(Gcd(v.x, v.y), v.z)
    IN  IF g = 0 THEN v ELSE Vec(v.x \div g, v.y \div g, v.z \div g)

(* Points: (x/w, y/w, z/w) *)

Pt(a, b, c, d) ==
    LET g == Gcd(Gcd(Gcd(a, b), c), d)
    IN  [x |-> a \div g, y |-> b \div g, z |-> c \div g, w |-> d \div g]

PtOfVec(v) == [x |-> v.x, y |-> v.y, z |-> v.z, w |-> 1]

\* p + v * (n/d), for an integer vector v and a finite parameter n/d
PtAlong(p, v, t) ==
    Pt(p.x * t.d + v.x * t.n * p.w,
       p.y * t.d + v.y * t.n * p.w,
       p.z * t.d + v.z * t.n * p.w,
       p.w * t.d)

\* the integer vector with the direction of q - p, for an integer point q
VecTo(q, p) == Vec(q.x * p.w - p.x, q.y * p.w - p.y, q.z * p.w - p.z)

----------------------------------------------------------------------------
(* f32 ray parameters: extended rationals *)

PInf == [n |-> 1, d |-> 0]

NInf == [n |-> -1, d |-> 0]

NaN == [n |-> 0, d |-> 0]

Rat(a, b) ==
    LET g == Gcd(a, b)
    IN  IF b > 0 THEN [n |-> a \div g, d |-> b \div g]
        ELSE [n |-> (-a) \div g, d |-> (-b) \div g]

FZero == [n |-> 0, d |-> 1]

FOne == [n |-> 1, d |-> 1]

IsNaN(a) == a.d = 0 /\ a.n = 0

IsFinite(a) == a.d > 0

\* a < b of f32: false when either is NaN
FLt(a, b) ==
    /\ ~IsNaN(a)
    /\ ~IsNaN(b)
    /\ IF a.d = 0 /\ b.d = 0 THEN a.n < b.n ELSE a.n * b.d < b.n * a.d

\* f32::min and f32::max of Rust: a NaN operand is ignored
FMin(a, b) == IF IsNaN(a) THEN b ELSE IF IsNaN(b) THEN a ELSE IF FLt(b, a) THEN b ELSE a

FMax(a, b) == IF IsNaN(a) THEN b ELSE IF IsNaN(b) THEN a ELSE IF FLt(a, b) THEN b ELSE a

\* (plane - o) * (1.0 / dc), for the origin coordinate on/ow: 1.0/0.0 is +inf,
\* and 0 * inf is NaN
SlabT(plane, on, ow, dc) ==
    LET a == plane * ow - on
    IN  IF dc = 0
        THEN (IF a > 0 THEN PInf ELSE IF a < 0 THEN NInf ELSE NaN)
        ELSE Rat(a, ow * dc)

----------------------------------------------------------------------------
(* Material and Cube (the fields main.rs and cube.rs read) *)

\* albedo = [diffuse_w, specular_w, reflect_w, refract_w], weights in 1/100;
\* refractive_index is the fraction num/den
Material(diffuse, specular, albedo, ri_num, ri_den, emissive, e_int, e_col) ==
    [diffuse |-> diffuse, specular |-> specular, albedo |-> albedo,
     refractive_index |-> [num |-> ri_num, den |-> ri_den],
     texture_id |-> "None", normal_map_id |-> "None",
     is_emissive |-> emissive, emission_intensity |-> e_int,
     emission_color |-> e_col]

Cube(center, size, material) ==
    [center |-> center, size |-> size, material |-> material]

CubeMin(cube) ==
    LET half_size == cube.size \div 2
    IN  Vec(cube.center.x - half_size, cube.center.y - half_size,
            cube.center.z - half_size)

CubeMax(cube) ==
    LET half_size == cube.size \div 2
    IN  Vec(cube.center.x + half_size, cube.center.y + half_size,
            cube.center.z + half_size)

\* Cube::get_uv: (u, v) as fractions; local/half_size maps [-1,1] to [0,1]
GetUV(cube, point, normal) ==
    LET half_size == cube.size \div 2
        lx == point.x - cube.center.x * point.w
        ly == point.y - cube.center.y * point.w
        lz == point.z - cube.center.z * point.w
        den == 2 * half_size * point.w
        C(l) == Rat(l + half_size * point.w, den)
        ax == Abs(normal.x)
        ay == Abs(normal.y)
        az == Abs(normal.z)
    IN  IF ax > ay /\ ax > az THEN [u |-> C(lz), v |-> C(ly)]
        ELSE IF ay > az THEN [u |-> C(lx), v |-> C(lz)]
        ELSE [u |-> C(lx), v |-> C(ly)]

----------------------------------------------------------------------------
(* Intersect *)

IntersectEmpty ==
    [is_intersecting |-> FALSE, point |-> PtOfVec(VZero), normal |-> VZero,
     distance |-> PInf, material |-> "None", u |-> FZero, v |-> FZero]

IntersectNew(point, normal, distance, material, u, v) ==
    [is_intersecting |-> TRUE, point |-> point, normal |-> normal,
     distance |-> distance, material |-> material, u |-> u, v |-> v]

----------------------------------------------------------------------------
(* Cube::ray_intersect *)

\* |c/w - plane| < epsilon
NearPlane(c, w, plane) == Abs(c - plane * w) < epsilon * w

\* FaceNormal with the Y faces tested before the X faces
FaceNormalYFirst(point, min, max) ==
    IF NearPlane(point.y, point.w, min.y) THEN Vec(0, -1, 0)
    ELSE IF NearPlane(point.y, point.w, max.y) THEN Vec(0, 1, 0)
    ELSE IF NearPlane(point.x, point.w, min.x) THEN Vec(-1, 0, 0)
    ELSE IF NearPlane(point.x, point.w, max.x) THEN Vec(1, 0, 0)
    ELSE IF NearPlane(point.z, point.w, min.z) THEN Vec(0, 0, -1)
    ELSE IF NearPlane(point.z, point.w, max.z) THEN Vec(0, 0, 1)
    ELSE VZero

\* the if / else-if chain over the six faces (cube.rs 81-96)
FaceNormal(point, min, max) ==
    IF NearPlane(point.x, point.w, min.x) THEN Vec(-1, 0, 0)
    ELSE IF NearPlane(point.x, point.w, max.x) THEN Vec(1, 0, 0)
    ELSE IF NearPlane(point.y, point.w, min.y) THEN Vec(0, -1, 0)
    ELSE IF NearPlane(point.y, point.w, max.y) THEN Vec(0, 1, 0)
    ELSE IF NearPlane(point.z, point.w, min.z) THEN Vec(0, 0, -1)
    ELSE IF NearPlane(point.z, point.w, max.z) THEN Vec(0, 0, 1)
    ELSE VZero

\* t1 .. t6 of the slab method
SlabTs(cube, o, D) ==
    LET min == CubeMin(cube)
        max == CubeMax(cube)
    IN  [t1 |-> SlabT(min.x, o.x, o.w, D.x), t2 |-> SlabT(max.x, o.x, o.w, D.x),
         t3 |-> SlabT(min.y, o.y, o.w, D.y), t4 |-> SlabT(max.y, o.y, o.w, D.y),
         t5 |-> SlabT(min.z, o.z, o.w, D.z), t6 |-> SlabT(max.z, o.z, o.w, D.z)]

\* tmin = max(max(min(t1, t2), min(t3, t4)), min(t5, t6)) (cube.rs 62)
TminOf(s) == FMax(FMax(FMin(s.t1, s.t2), FMin(s.t3, s.t4)), FMin(s.t5, s.t6))

\* tmax = min(min(max(t1, t2), max(t3, t4)), max(t5, t6)) (cube.rs 63)
TmaxOf(s) == FMin(FMin(FMax(s.t1, s.t2), FMax(s.t3, s.t4)), FMax(s.t5, s.t6))

SlabTmin(cube, o, D) == TminOf(SlabTs(cube, o, D))

SlabTmax(cube, o, D) == TmaxOf(SlabTs(cube, o, D))

\* the hit at parameter t: its face and its texture coordinates (cube.rs 81-100)
HitAt(cube, point, t) ==
    LET normal == FaceNormal(point, CubeMin(cube), CubeMax(cube))
        uv == GetUV(cube, point, normal)
    IN  IntersectNew(point, normal, t, cube.material, uv.u, uv.v)

\* the tests on tmin and tmax that always take tmin as the hit parameter
HitBetweenTminOnly(cube, ray_origin, ray_direction, tmin, tmax) ==
    IF FLt(tmax, FZero) THEN IntersectEmpty
    ELSE IF FLt(tmax, tmin) THEN IntersectEmpty
    ELSE HitAt(cube,
               IF IsFinite(tmin) THEN PtAlong(ray_origin, ray_direction, tmin)
               ELSE ray_origin,
               tmin)

\* the tests on tmin and tmax and the choice of t (cube.rs 66-78)
HitBetween(cube, ray_origin, ray_direction, tmin, tmax) ==
    IF FLt(tmax, FZero) THEN IntersectEmpty
    ELSE IF FLt(tmax, tmin) THEN IntersectEmpty
    ELSE LET t == IF FLt(FZero, tmin) THEN tmin ELSE tmax
         IN  HitAt(cube, PtAlong(ray_origin, ray_direction, t), t)

RayIntersect(cube, ray_origin, ray_direction) ==
    HitBetween(cube, ray_origin, ray_direction,
               SlabTmin(cube, ray_origin, ray_direction),
               SlabTmax(cube, ray_origin, ray_direction))

----------------------------------------------------------------------------
(* Values of the variables an operation does not use *)

NoRay == [origin |-> PtOfVec(VZero), direction |-> VZero]

NoLight == [position |-> VZero, color |-> Vec(0, 0, 0), intensity |-> 0]

IdleCast ==
    /\ stack = << >>
    /\ result = "none"
    /\ calls = 0
    /\ leaves = 0
    /\ returned = "none"
    /\ refracted = "none"

IdleRender ==
    /\ pixel_buffer = << >>
    /\ framebuffer = << >>
    /\ row_x = << >>
    /\ copy_i = 0

IdleBlocks == layers = << >>

IdleSample ==
    /\ emissive_sum = "none"
    /\ sample = "none"

----------------------------------------------------------------------------
(* Materials of the model's scenes *)

White == Vec(100, 100, 100)

\* diffuse only: albedo [1, 0, 0, 0]
Matte == Material(Vec(100, 0, 0), 10, <<100, 0, 0, 0>>, 0, 1, FALSE, 0, VZero)

\* diffuse only as well, another colour and exponent
Clay == Material(Vec(60, 40, 20), 5, <<100, 0, 0, 0>>, 0, 1, FALSE, 0, VZero)

\* a perfect mirror: albedo [0, 0, 1, 0]
Mirror == Material(Vec(80, 80, 80), 2, <<0, 0, 100, 0>>, 0, 1, FALSE, 0, VZero)

\* emissive, as the glowstone of blocks.rs: albedo [0.7, 0.3, 0, 0]
Glow == Material(Vec(90, 90, 20), 2, <<70, 30, 0, 0>>, 0, 1, TRUE, 60, Vec(100, 95, 30))

----------------------------------------------------------------------------
(* Cube::ray_intersect applied to one cube and one ray *)

Coords(r) == (-r) .. r

Dirs(r, rz) ==
    {Vec(a, b, c) : a \in Coords(r), b \in Coords(r), c \in Coords(rz)} \ {VZero}

InitIntersect ==
    /\ phase = "intersect"
    /\ objects = <<Cube(VZero, 2 * CubeHalf, Matte)>>
    /\ light = NoLight
    /\ \E o \in {Vec(a, b, c) : a \in Coords(CubeHalf + 2),
                                b \in Coords(CubeHalf + 2),
                                c \in Coords(CubeHalf + 1)},
          D \in Dirs(MaxDir, 1) :
            ray = [origin |-> PtOfVec(o), direction |-> D]
    /\ isect = "none"
    /\ shadow = "none"
    /\ IdleBlocks
    /\ IdleSample
    /\ IdleCast
    /\ IdleRender

ApplyRayIntersect ==
    /\ phase = "intersect"
    /\ isect' = RayIntersect(objects[1], ray.origin, ray.direction)
    /\ phase' = "intersected"
    /\ UNCHANGED <<layers, emissive_sum, sample,
                   objects, light, ray, shadow, stack, result, calls, leaves,
                   returned, refracted, pixel_buffer, framebuffer, row_x, copy_i>>

NextIntersect == ApplyRayIntersect

SpecIntersect == InitIntersect /\ [][NextIntersect]_vars

----------------------------------------------------------------------------
(* The geometry the intersection is compared with *)

\* o + D * t lies in the closed cube
InCubeAt(cube, o, D, t) ==
    LET p == PtAlong(o, D, t)
        min == CubeMin(cube)
        max == CubeMax(cube)
    IN  /\ min.x * p.w <= p.x /\ p.x <= max.x * p.w
        /\ min.y * p.w <= p.y /\ p.y <= max.y * p.w
        /\ min.z * p.w <= p.z /\ p.z <= max.z * p.w

Outside(cube, o) == ~InCubeAt(cube, o, VZero, FZero)

StrictlyInside(cube, o) ==
    LET min == CubeMin(cube)
        max == CubeMax(cube)
    IN  /\ min.x * o.w < o.x /\ o.x < max.x * o.w
        /\ min.y * o.w < o.y /\ o.y < max.y * o.w
        /\ min.z * o.w < o.z /\ o.z < max.z * o.w

\* the parameters at which the line through o along D crosses a face plane
PlaneTs(cube, o, D) ==
    LET min == CubeMin(cube)
        max == CubeMax(cube)
    IN  {Rat(pl * o.w - o.x, o.w * D.x) : pl \in IF D.x = 0 THEN {} ELSE {min.x, max.x}}
        \cup
        {Rat(pl * o.w - o.y, o.w * D.y) : pl \in IF D.y = 0 THEN {} ELSE {min.y, max.y}}
        \cup
        {Rat(pl * o.w - o.z, o.w * D.z) : pl \in IF D.z = 0 THEN {} ELSE {min.z, max.z}}

\* the parameters t >= 0 at which the ray meets the boundary of the cube
RayTs(cube, o, D) ==
    {t \in PlaneTs(cube, o, D) : t.n >= 0 /\ InCubeAt(cube, o, D, t)}

Least(S) == CHOOSE t \in S : \A u \in S : ~FLt(u, t)

Greatest(S) == CHOOSE t \in S : \A u \in S : ~FLt(t, u)

\* the faces in the order X-min, X-max, Y-min, Y-max, Z-min, Z-max
FaceOut == <<Vec(-1, 0, 0), Vec(1, 0, 0), Vec(0, -1, 0), Vec(0, 1, 0),
             Vec(0, 0, -1), Vec(0, 0, 1)>>

\* signed distance (times p.w) of p to the plane of face i
FaceGap(cube, p, i) ==
    LET min == CubeMin(cube)
        max == CubeMax(cube)
    IN  CASE i = 1 -> p.x - min.x * p.w
          [] i = 2 -> p.x - max.x * p.w
          [] i = 3 -> p.y - min.y * p.w
          [] i = 4 -> p.y - max.y * p.w
          [] i = 5 -> p.z - min.z * p.w
          [] i = 6 -> p.z - max.z * p.w

\* the faces whose plane p matches within the tolerance
Matched(cube, p) == {i \in 1..6 : Abs(FaceGap(cube, p, i)) < epsilon * p.w}

\* the faces whose plane p lies on
OnPlane(cube, p) == {i \in 1..6 : FaceGap(cube, p, i) = 0}

First(S) == CHOOSE i \in S : \A j \in S : i <= j

----------------------------------------------------------------------------
(* C4: Cube::ray_intersect reports no hit exactly when tmax < 0 or            *)
(* tmin > tmax; a hit has distance tmin when tmin > 0 and tmax otherwise;     *)
(* every hit distance is >= 0 and is a parameter at which the ray meets the   *)
(* cube's boundary: the least one (the near face) for an origin outside the   *)
(* cube, the greatest one (the exit) for an origin strictly inside, which     *)
(* always hits.                                                               *)
C4_SlabHitDistance ==
    phase = "intersected" =>
        LET cube == objects[1]
            o == ray.origin
            D == ray.direction
            tmin == SlabTmin(cube, o, D)
            tmax == SlabTmax(cube, o, D)
            ts == RayTs(cube, o, D)
        IN  /\ isect.is_intersecting <=> ~(FLt(tmax, FZero) \/ FLt(tmax, tmin))
            /\ StrictlyInside(cube, o) => isect.is_intersecting
            /\ isect.is_intersecting =>
                /\ isect.distance = (IF FLt(FZero, tmin) THEN tmin ELSE tmax)
                /\ IsFinite(isect.distance)
                /\ isect.distance.n >= 0
                /\ isect.distance \in ts
                /\ isect.point = PtAlong(o, D, isect.distance)
                /\ Outside(cube, o) =>
                    /\ isect.distance = tmin
                    /\ isect.distance = Least(ts)
                    /\ isect.distance.n > 0
                /\ StrictlyInside(cube, o) =>
                    /\ isect.distance = tmax
                    /\ isect.distance = Greatest(ts)
                    /\ isect.distance.n > 0

\* a ray from strictly inside the cube, oblique to the faces, got the exit
\* distance, and it is not the entry parameter
C4_Witness ==
    /\ phase = "intersected"
    /\ StrictlyInside(objects[1], ray.origin)
    /\ ray.direction.x # 0 /\ ray.direction.y # 0 /\ ray.direction.z # 0
    /\ isect.is_intersecting
    /\ isect.distance = SlabTmax(objects[1], ray.origin, ray.direction)
    /\ isect.distance.d > 1
    /\ SlabTmin(objects[1], ray.origin, ray.direction).n < 0

(* C5: for every hit the normal is the outward unit normal of the first face *)
(* in the order X-min, X-max, Y-min, Y-max, Z-min, Z-max whose plane the hit   *)
(* point matches within the tolerance, never zero; when one plane only is     *)
(* matched it is the face the hit point lies on: the face entered for an      *)
(* origin outside the cube, the exit face for an origin strictly inside; a    *)
(* ray from outside aimed at the centre gets a normal facing the ray.         *)
C5_FaceNormal ==
    (phase = "intersected" /\ isect.is_intersecting) =>
        LET cube == objects[1]
            o == ray.origin
            D == ray.direction
            p == isect.point
            M == Matched(cube, p)
            toCentre == VecTo(cube.center, o)
            aimed == /\ Dot(toCentre, D) > 0
                     /\ DirNorm(toCentre) = DirNorm(D)
        IN  /\ M # {}
            /\ OnPlane(cube, p) # {}
            /\ isect.normal = FaceOut[First(M)]
            /\ isect.normal # VZero
            /\ Dot(isect.normal, isect.normal) = 1
            /\ Dot(isect.normal, VecTo(cube.center, p)) < 0
            /\ Cardinality(M) = 1 =>
                /\ OnPlane(cube, p) = M
                /\ Outside(cube, o) => Dot(D, isect.normal) < 0
                /\ StrictlyInside(cube, o) => Dot(D, isect.normal) > 0
            /\ (Outside(cube, o) /\ aimed) => Dot(D, isect.normal) < 0

\* a hit on the Y-max face only, within the tolerance of the X-min plane: the
\* normal is the X-min normal by the order of the tests
C5_Witness ==
    /\ phase = "intersected"
    /\ isect.is_intersecting
    /\ OnPlane(objects[1], isect.point) = {4}
    /\ Matched(objects[1], isect.point) = {1, 4}
    /\ isect.normal = Vec(-1, 0, 0)

----------------------------------------------------------------------------
(* offset_origin, and the direction and distance to a point light *)

\* offset_origin with the two branches exchanged
OffsetOriginSwapped(intersect, direction) ==
    LET p == intersect.point
        offset == VScale(intersect.normal, ORIGIN_BIAS * p.w)
    IN  IF Dot(direction, intersect.normal) < 0
        THEN Pt(p.x + offset.x, p.y + offset.y, p.z + offset.z, p.w)
        ELSE Pt(p.x - offset.x, p.y - offset.y, p.z - offset.z, p.w)

OffsetOrigin(intersect, direction) ==
    LET p == intersect.point
        offset == VScale(intersect.normal, ORIGIN_BIAS * p.w)
    IN  IF Dot(direction, intersect.normal) < 0
        THEN Pt(p.x - offset.x, p.y - offset.y, p.z - offset.z, p.w)
        ELSE Pt(p.x + offset.x, p.y + offset.y, p.z + offset.z, p.w)

\* (target - point).normalized(): the direction in lowest terms
DirTo(target, point) == DirNorm(VecTo(target, point))

\* (target - point).length(), in units of |DirTo(target, point)|
DistTo(target, point) ==
    LET V == VecTo(target, point)
    IN  Rat(Gcd(Gcd(V.x, V.y), V.z), point.w)

----------------------------------------------------------------------------
(* cast_shadow: 1.0 is 100 *)

\* a cube casts the shadow: it is hit before the light (main.rs 90)
Blocks(shadow_intersect, light_distance) ==
    /\ shadow_intersect.is_intersecting
    /\ FLt(shadow_intersect.distance, light_distance)

\* the loop of cast_shadow without the test that skips emissive cubes
RECURSIVE ShadowLoopAll(_, _, _, _, _)
ShadowLoopAll(objs, k, shadow_ray_origin, light_dir, light_distance) ==
    IF k > Len(objs) THEN 0
    ELSE IF Blocks(RayIntersect(objs[k], shadow_ray_origin, light_dir), light_distance)
    THEN 100
    ELSE ShadowLoopAll(objs, k + 1, shadow_ray_origin, light_dir, light_distance)

\* the loop of cast_shadow from objs[k] on (main.rs 83-95)
RECURSIVE ShadowLoop(_, _, _, _, _)
ShadowLoop(objs, k, shadow_ray_origin, light_dir, light_distance) ==
    IF k > Len(objs) THEN 0
    ELSE IF objs[k].material.is_emissive
    THEN ShadowLoop(objs, k + 1, shadow_ray_origin, light_dir, light_distance)
    ELSE IF Blocks(RayIntersect(objs[k], shadow_ray_origin, light_dir), light_distance)
    THEN 100
    ELSE ShadowLoop(objs, k + 1, shadow_ray_origin, light_dir, light_distance)

\* cast_shadow with the shadow ray starting on the surface itself
CastShadowNoBias(intersect, lgt, objs) ==
    LET light_dir == DirTo(lgt.position, intersect.point)
        light_distance == DistTo(lgt.position, intersect.point)
        shadow_ray_origin == intersect.point
    IN  ShadowLoop(objs, 1, shadow_ray_origin, light_dir, light_distance)

CastShadow(intersect, lgt, objs) ==
    LET light_dir == DirTo(lgt.position, intersect.point)
        light_distance == DistTo(lgt.position, intersect.point)
        shadow_ray_origin == OffsetOrigin(intersect, light_dir)
    IN  ShadowLoop(objs, 1, shadow_ray_origin, light_dir, light_distance)

----------------------------------------------------------------------------
(* cast_ray's scan for the nearest hit (main.rs 110-119) *)

\* the test of the scan with <= in place of <: a later cube at equal distance
\* wins
CloserOrEqual(i, best) ==
    IF i.is_intersecting /\ ~FLt(best.zbuffer, i.distance)
    THEN [intersect |-> i, zbuffer |-> i.distance]
    ELSE best

\* if i.is_intersecting && i.distance < zbuffer (main.rs 115-118)
Closer(i, best) ==
    IF i.is_intersecting /\ FLt(i.distance, best.zbuffer)
    THEN [intersect |-> i, zbuffer |-> i.distance]
    ELSE best

\* the loop over the cubes from objs[k] on (main.rs 113-119)
RECURSIVE Scan(_, _, _, _, _)
Scan(objs, k, ray_origin, ray_direction, best) ==
    IF k > Len(objs) THEN best.intersect
    ELSE Scan(objs, k + 1, ray_origin, ray_direction,
              Closer(RayIntersect(objs[k], ray_origin, ray_direction), best))

NearestHit(objs, ray_origin, ray_direction) ==
    Scan(objs, 1, ray_origin, ray_direction,
         [intersect |-> IntersectEmpty, zbuffer |-> PInf])

----------------------------------------------------------------------------
(* cast_shadow applied to the nearest hit of a ray that comes down on a cube, *)
(* with up to two more cubes and a light around it                            *)

ShadowRays ==
    {[origin |-> PtOfVec(Vec(a, CubeHalf + 3, 0)), direction |-> D] :
        a \in Coords(CubeHalf + 1),
        D \in {Vec(0, -1, 0), Vec(1, -2, 0), Vec(-1, -1, 0)}}

ShadowLights ==
    {[position |-> Vec(a, b, c), color |-> Vec(255, 255, 255), intensity |-> 100] :
        a \in {-3 * CubeHalf, 0, 1, 3 * CubeHalf},
        b \in {0, CubeHalf, CubeHalf + 1, 6 * CubeHalf},
        c \in {0, 1}}

ShadowExtras ==
    LET first == {Cube(Vec(a, b, 0), 2 * CubeHalf, m) :
                    a \in {-CubeHalf, 0, 1, 2 * CubeHalf},
                    b \in {2 * CubeHalf + 1, 3 * CubeHalf, 4 * CubeHalf},
                    m \in {Matte, Glow}}
        second == {Cube(Vec(0, 3 * CubeHalf, 0), 2 * CubeHalf, Glow),
                   Cube(Vec(2 * CubeHalf, 2 * CubeHalf + 1, 0), 2 * CubeHalf, Matte)}
    IN  {<< >>} \cup {<<c>> : c \in first}
        \cup {<<c, e>> : c \in first, e \in second}

InitShadow ==
    /\ phase = "shadow"
    /\ \E extra \in ShadowExtras :
          objects = <<Cube(VZero, 2 * CubeHalf, Matte)>> \o extra
    /\ \E l \in ShadowLights :
          /\ \A k \in 1..Len(objects) : Outside(objects[k], PtOfVec(l.position))
          /\ light = l
    /\ ray \in ShadowRays
    /\ isect = "none"
    /\ shadow = "none"
    /\ IdleBlocks
    /\ IdleSample
    /\ IdleCast
    /\ IdleRender

\* the hit cast_ray hands to cast_shadow
ShadowFindHit ==
    /\ phase = "shadow"
    /\ isect' = NearestHit(objects, ray.origin, ray.direction)
    /\ phase' = "shadow_hit"
    /\ UNCHANGED <<layers, emissive_sum, sample,
                   objects, light, ray, shadow, stack, result, calls, leaves,
                   returned, refracted, pixel_buffer, framebuffer, row_x, copy_i>>

ApplyCastShadow ==
    /\ phase = "shadow_hit"
    /\ isect.is_intersecting
    /\ shadow' = CastShadow(isect, light, objects)
    /\ phase' = "shadowed"
    /\ UNCHANGED <<layers, emissive_sum, sample,
                   objects, light, ray, isect, stack, result, calls, leaves,
                   returned, refracted, pixel_buffer, framebuffer, row_x, copy_i>>

NextShadow == ShadowFindHit \/ ApplyCastShadow

SpecShadow == InitShadow /\ [][NextShadow]_vars

\* the sequence without its j-th element
RemoveAt(seq, j) == [i \in 1..(Len(seq) - 1) |-> IF i < j THEN seq[i] ELSE seq[i + 1]]

\* the cubes that intersect the shadow ray closer than the light
Blockers(intersect, lgt, objs) ==
    LET light_dir == DirTo(lgt.position, intersect.point)
        origin == OffsetOrigin(intersect, light_dir)
    IN  {k \in 1..Len(objs) :
            LET si == RayIntersect(objs[k], origin, light_dir)
            IN  /\ si.is_intersecting
                /\ FLt(si.distance, DistTo(lgt.position, intersect.point))}

\* the centre of the cube lies on the segment from p to the point q, and the
\* cube holds neither end of it
DirectlyBetween(cube, p, q) ==
    LET V == VecTo(q, p)
        C == VecTo(cube.center, p)
    IN  /\ DirNorm(C) = DirNorm(V)
        /\ Dot(C, C) > 0
        /\ Dot(C, C) < Dot(V, V)
        /\ Outside(cube, p)
        /\ Outside(cube, PtOfVec(q))

(* C6: cast_shadow returns 0 or 1 only; 1 exactly when some non-emissive cube *)
(* intersects the ray from the bias-offset hit point toward the light closer  *)
(* than the light is to the hit point; emissive cubes never cast a shadow; a  *)
(* non-emissive cube directly between the hit point and the light gives 1,    *)
(* and with a single occluder, removing it gives 0.                           *)
C6_ShadowBinary ==
    phase = "shadowed" =>
        LET B == Blockers(isect, light, objects)
            occluders == {k \in B : ~objects[k].material.is_emissive}
            opaque == SelectSeq(objects, LAMBDA c : ~c.material.is_emissive)
        IN  /\ shadow \in {0, 100}
            /\ shadow = 100 <=> occluders # {}
            /\ shadow = CastShadow(isect, light, opaque)
            /\ \A k \in 1..Len(objects) :
                  (/\ ~objects[k].material.is_emissive
                   /\ DirectlyBetween(objects[k], isect.point, light.position))
                  => shadow = 100
            /\ \A j \in occluders :
                  occluders = {j} => CastShadow(isect, light, RemoveAt(objects, j)) = 0

\* one occluding cube directly between the hit point and the light, an
\* emissive cube on the shadow ray as well: full shadow, and none without
\* the occluder
C6_Witness ==
    /\ phase = "shadowed"
    /\ shadow = 100
    /\ Len(objects) = 3
    /\ Blockers(isect, light, objects) = {2, 3}
    /\ ~objects[2].material.is_emissive
    /\ objects[3].material.is_emissive
    /\ DirectlyBetween(objects[2], isect.point, light.position)
    /\ CastShadow(isect, light, RemoveAt(objects, 2)) = 0

----------------------------------------------------------------------------
(* reflect and refract *)

\* incident - normal * 2 * incident.dot(normal), for a unit normal
Reflect(incident, normal) ==
    VSub(incident, VScale(normal, 2 * Dot(incident, normal)))

None == [some |-> FALSE, dir |-> VZero]

Some(v) == [some |-> TRUE, dir |-> v]

\* refract with the sign of the square root wrong
RefractPlusSqrt(incident, normal, refractive_index) ==
    LET d == Dot(incident, normal)
        c == Abs(d)
        n == IF d > 0 THEN VNeg(normal) ELSE normal
        p == IF d > 0 THEN refractive_index.num ELSE refractive_index.den
        q == IF d > 0 THEN refractive_index.den ELSE refractive_index.num
        L2 == Dot(incident, incident)
        R == q * q * L2 - p * p * (L2 - c * c)
    IN  IF R < 0 THEN None
        ELSE Some(DirNorm(VAdd(VScale(incident, p), VScale(n, p * c + ISqrt(R)))))

(* refract, for the unit vector incident/|incident| and a unit normal.       *)
(* With d = incident.normal, cosi is d/|incident|; cosi > 0 swaps the two    *)
(* indices and negates the normal; eta = etai/etat is the fraction p/q;      *)
(* k = 1 - eta^2 (1 - cosi^2) = R / (q^2 |incident|^2), so k < 0 iff R < 0;  *)
(* and incident*eta + n*(eta*cosi - sqrt(k)) has the direction of            *)
(* incident*p + n*(p*|d| - sqrt(R)).  The square root is exact when R is a   *)
(* perfect square and rounded down otherwise.                                *)
Refract(incident, normal, refractive_index) ==
    LET d == Dot(incident, normal)
        c == Abs(d)
        n == IF d > 0 THEN VNeg(normal) ELSE normal
        p == IF d > 0 THEN refractive_index.num ELSE refractive_index.den
        q == IF d > 0 THEN refractive_index.den ELSE refractive_index.num
        L2 == Dot(incident, incident)
        R == q * q * L2 - p * p * (L2 - c * c)
    IN  IF R < 0 THEN None
        ELSE Some(DirNorm(VAdd(VScale(incident, p), VScale(n, p * c - ISqrt(R)))))

----------------------------------------------------------------------------
(* refract applied to one incident direction, one face normal and one index *)

\* glass: albedo [0, 0.3, 0.4, 0.8] as in blocks.rs, refractive index num/den
GlassOf(num, den) ==
    Material(Vec(50, 80, 100), 2, <<0, 30, 40, 80>>, num, den, FALSE, 0, VZero)

RefractIndices == {<<3, 2>>, <<5, 1>>, <<16, 5>>, <<13, 7>>}

InitRefract ==
    /\ phase = "refract"
    /\ objects = << >>
    /\ light = NoLight
    /\ \E D \in Dirs(MaxDir, 1) : ray = [origin |-> PtOfVec(VZero), direction |-> D]
    /\ \E i \in 1..6, ri \in RefractIndices :
          isect = IntersectNew(PtOfVec(VZero), FaceOut[i], FOne,
                               GlassOf(ri[1], ri[2]), FZero, FZero)
    /\ shadow = "none"
    /\ IdleBlocks
    /\ IdleSample
    /\ IdleCast
    /\ IdleRender

ApplyRefract ==
    /\ phase = "refract"
    /\ refracted' = Refract(ray.direction, isect.normal,
                            isect.material.refractive_index)
    /\ phase' = "refracted"
    /\ UNCHANGED <<layers, emissive_sum, sample,
                   objects, light, ray, isect, shadow, stack, result, calls,
                   leaves, returned, pixel_buffer, framebuffer, row_x, copy_i>>

NextRefract == ApplyRefract

SpecRefract == InitRefract /\ [][NextRefract]_vars

\* v without its component along the unit vector n
Tangential(v, n) == VSub(v, VScale(n, Dot(v, n)))

IsSquare(n) == n >= 0 /\ ISqrt(n) * ISqrt(n) = n

\* the ray meets the surface along its normal, from outside
NormalIncidence(incident, normal) == DirNorm(incident) = VNeg(normal)

(* C9 as stated: at normal incidence on an index > 1, the direction refract *)
(* returns differs from the incident direction.                             *)
C9_BentAtNormalIncidence ==
    (/\ phase = "refracted"
     /\ NormalIncidence(ray.direction, isect.normal)
     /\ isect.material.refractive_index.num > isect.material.refractive_index.den)
    => (refracted.some /\ refracted.dir # DirNorm(ray.direction))

(* C9 as amended: at normal incidence on an index > 1 refract returns the   *)
(* incident direction, bent by the zero angle Snell's law predicts there;   *)
(* whenever refract returns a direction computed with an exact square root, *)
(* it obeys Snell's law, sin(theta_t) = eta sin(theta_i), on the far side   *)
(* of the surface and in the plane of incidence, and a ray entering         *)
(* obliquely is bent.                                                       *)
C9_SnellAtNormalIncidence ==
    phase = "refracted" =>
        LET D == ray.direction
            N == isect.normal
            ri == isect.material.refractive_index
            d == Dot(D, N)
            p == IF d > 0 THEN ri.num ELSE ri.den
            q == IF d > 0 THEN ri.den ELSE ri.num
            L2 == Dot(D, D)
            R == q * q * L2 - p * p * (L2 - d * d)
            T == refracted.dir
        IN  /\ (NormalIncidence(D, N) /\ ri.num > ri.den) =>
                (refracted.some /\ T = DirNorm(D))
            /\ refracted.some <=> R >= 0
            /\ (refracted.some /\ IsSquare(R)) =>
                /\ (Dot(T, T) - Dot(T, N) * Dot(T, N)) * q * q * L2
                     = p * p * (L2 - d * d) * Dot(T, T)
                /\ IF d > 0 THEN Dot(T, N) > 0 ELSE Dot(T, N) < 0
                /\ DirNorm(Tangential(T, N)) = DirNorm(Tangential(D, N))
                /\ (d < 0 /\ L2 # d * d /\ ri.num > ri.den) => T # DirNorm(D)

\* refract was applied at normal incidence to glass of index 16/5 and
\* returned the incident direction
C9_Witness ==
    /\ phase = "refracted"
    /\ NormalIncidence(ray.direction, isect.normal)
    /\ isect.material.refractive_index = [num |-> 16, den |-> 5]
    /\ refracted = Some(DirNorm(ray.direction))

----------------------------------------------------------------------------
(* Colours and weights: fixed point, 1.0 is 100 *)

SKYBOX_COLOR == Vec(26, 55, 89)

\* a * b of two f32 in fixed point
CMul(a, b) == (a * b) \div 100

\* Vector3 * f32
CScale(v, k) == Vec(CMul(v.x, k), CMul(v.y, k), CMul(v.z, k))

\* Vector3 * Vector3, component by component
CProd(a, b) == Vec(CMul(a.x, b.x), CMul(a.y, b.y), CMul(a.z, b.z))

Max0(a) == IF a > 0 THEN a ELSE 0

\* the length of an integer vector, in 1/100
Len100(v) ==
    LET s == Dot(v, v)
    IN  IF s < 200000 THEN ISqrt(s * 10000) ELSE 100 * ISqrt(s)

\* the largest of |v.x|, |v.y|, |v.z|
MaxAbs(v) ==
    LET a == Abs(v.x)
        b == Abs(v.y)
        c == Abs(v.z)
    IN  IF a >= b /\ a >= c THEN a ELSE IF b >= c THEN b ELSE c

\* v divided by k, component by component
Shrunk(v, k) == Vec(v.x \div k, v.y \div k, v.z \div k)

\* a vector of the same direction within 1e-4 with components up to 10000,
\* whose squares stay within 32 bits
Short(v) == IF MaxAbs(v) > 10000 THEN Shrunk(v, MaxAbs(v) \div 10000 + 1) ELSE v

\* v.normalized() in fixed point, for v with components up to 10000; the zero
\* vector stays zero
Unit100(v) ==
    IF Len100(v) = 0 THEN VZero
    ELSE Vec((v.x * 10000) \div Len100(v), (v.y * 10000) \div Len100(v),
             (v.z * 10000) \div Len100(v))

\* v.normalized() in fixed point
Normalized100(v) == Unit100(Short(v))

\* x.powf(e) for a natural exponent, in fixed point
RECURSIVE PowC(_, _)
PowC(x, e) == IF e = 0 THEN 100 ELSE CMul(x, PowC(x, e - 1))

\* the integer vector with the direction of a - b, for two points
PtDiff(a, b) == Vec(a.x * b.w - b.x * a.w, a.y * b.w - b.y * a.w, a.z * b.w - b.z * a.w)

----------------------------------------------------------------------------
(* cast_ray: the shading of a hit (main.rs 125-236) *)

\* the sums of the squares of the thousands and of the units of the components
\* of V, and of their double products: V.V = 10^6 * hh + 10^3 * hl + ll
SquareParts(V) ==
    LET xh == Abs(V.x) \div 1000
        xl == Abs(V.x) % 1000
        yh == Abs(V.y) \div 1000
        yl == Abs(V.y) % 1000
        zh == Abs(V.z) \div 1000
        zl == Abs(V.z) % 1000
    IN  [hh |-> xh * xh + yh * yh + zh * zh,
         hl |-> 2 * (xh * xl + yh * yl + zh * zl),
         ll |-> xl * xl + yl * yl + zl * zl]

\* V.V divided by 10^6, and what is left, without V.V itself: the square of a
\* length of 10.0 does not fit 32 bits
Dot6Of(s) == s.hh + (s.hl + s.ll \div 1000) \div 1000

Rem6Of(s) == ((s.hl + s.ll \div 1000) % 1000) * 1000 + (s.ll % 1000)

Dot6(V) == Dot6Of(SquareParts(V))

Rem6(V) == Rem6Of(SquareParts(V))

\* |V| > bound, for a bound whose square fits 32 bits
Longer(V, bound) ==
    \/ Dot6(V) > (bound * bound) \div 1000000
    \/ Dot(V, V) > bound * bound

\* emissive_distance < 10.0 && emissive_distance > 0.01, for V = center*w - point
EmissiveInRange(V, w) ==
    /\ Dot6(V) < (EMISSIVE_FAR \div 1000) * (EMISSIVE_FAR \div 1000) * w * w
    /\ Longer(V, EMISSIVE_NEAR * w)

\* 1.0 / (1.0 + 0.1 * emissive_distance^2), the distance in world units
Attenuation(V, w) ==
    LET d2 == Dot6(V) \div (w * w)
    IN  10000 \div (100 + d2 \div 10)

\* the loop over the emissive cubes that stops after the first cube that adds
\* its light
RECURSIVE EmissiveLoopFirstOnly(_, _, _, _, _)
EmissiveLoopFirstOnly(objs, k, intersect, normal, diffuse_color) ==
    IF k > Len(objs) THEN VZero
    ELSE LET object == objs[k]
             V == VecTo(object.center, intersect.point)
             emissive_dir == DirNorm(V)
             emissive_distance == DistTo(object.center, intersect.point)
             emissive_ray_origin == OffsetOrigin(intersect, emissive_dir)
             blocked == ShadowLoop(objs, 1, emissive_ray_origin, emissive_dir,
                                   emissive_distance) = 100
             attenuation == Attenuation(V, intersect.point.w)
             emissive_intensity ==
                 CMul(CMul(Max0(Dot(normal, Normalized100(emissive_dir))),
                           object.material.emission_intensity), attenuation)
         IN  IF /\ object.material.is_emissive
                /\ EmissiveInRange(V, intersect.point.w)
                /\ ~blocked
             THEN CProd(CScale(object.material.emission_color, emissive_intensity),
                        diffuse_color)
             ELSE EmissiveLoopFirstOnly(objs, k + 1, intersect, normal, diffuse_color)

\* the loop over the emissive cubes from objs[k] on (main.rs 181-214)
RECURSIVE EmissiveLoop(_, _, _, _, _)
EmissiveLoop(objs, k, intersect, normal, diffuse_color) ==
    IF k > Len(objs) THEN VZero
    ELSE LET object == objs[k]
             rest == EmissiveLoop(objs, k + 1, intersect, normal, diffuse_color)
             V == VecTo(object.center, intersect.point)
             emissive_dir == DirNorm(V)
             emissive_distance == DistTo(object.center, intersect.point)
             emissive_ray_origin == OffsetOrigin(intersect, emissive_dir)
             blocked == ShadowLoop(objs, 1, emissive_ray_origin, emissive_dir,
                                   emissive_distance) = 100
             attenuation == Attenuation(V, intersect.point.w)
             emissive_intensity ==
                 CMul(CMul(Max0(Dot(normal, Normalized100(emissive_dir))),
                           object.material.emission_intensity), attenuation)
         IN  IF /\ object.material.is_emissive
                /\ EmissiveInRange(V, intersect.point.w)
                /\ ~blocked
             THEN VAdd(CProd(CScale(object.material.emission_color,
                                    emissive_intensity), diffuse_color), rest)
             ELSE rest

\* what cast_ray computes for a hit before it recurses
Shade(ray_origin, ray_direction, intersect, lgt, objs) ==
    LET light_dir == DirTo(lgt.position, intersect.point)
        view_dir == PtDiff(ray_origin, intersect.point)
        normal == intersect.normal
        reflect_dir == Reflect(VNeg(light_dir), normal)
        shadow_intensity == CastShadow(intersect, lgt, objs)
        light_intensity == CMul(lgt.intensity, 100 - shadow_intensity)
        diffuse_color == intersect.material.diffuse
        diffuse_intensity ==
            CMul(Max0(Dot(normal, Normalized100(light_dir))), light_intensity)
        diffuse == CScale(diffuse_color, diffuse_intensity)
        specular_intensity ==
            CMul(PowC(Max0(Dot(Normalized100(view_dir), Normalized100(reflect_dir))
                           \div 100),
                      intersect.material.specular), light_intensity)
        light_color_v3 == Vec((lgt.color.x * 100) \div 255, (lgt.color.y * 100) \div 255,
                              (lgt.color.z * 100) \div 255)
        specular == CScale(light_color_v3, specular_intensity)
        albedo == intersect.material.albedo
        phong_color == VAdd(CScale(diffuse, albedo[1]), CScale(specular, albedo[2]))
        emissive_light == EmissiveLoop(objs, 1, intersect, normal, diffuse_color)
        self_emission ==
            IF intersect.material.is_emissive
            THEN CScale(intersect.material.emission_color,
                        intersect.material.emission_intensity)
            ELSE VZero
    IN  [normal |-> normal, shadow_intensity |-> shadow_intensity,
         phong_color |-> phong_color, emissive_light |-> emissive_light,
         self_emission |-> self_emission]

\* the colour cast_ray returns for a hit (main.rs 261)
FinalColor(f) ==
    LET reflectivity == f.intersect.material.albedo[3]
        transparency == f.intersect.material.albedo[4]
    IN  VAdd(VAdd(VAdd(VAdd(CScale(f.phong_color, 100 - reflectivity - transparency),
                            CScale(f.reflect_color, reflectivity)),
                       CScale(f.refract_color, transparency)),
                  f.emissive_light),
             f.self_emission)

----------------------------------------------------------------------------
(* cast_ray as a call stack: one frame per call, the innermost last *)

Frame(ray_origin, ray_direction, depth) ==
    [ray_origin |-> ray_origin, ray_direction |-> ray_direction, depth |-> depth,
     pc |-> "start", intersect |-> IntersectEmpty, normal |-> VZero,
     phong_color |-> VZero, emissive_light |-> VZero, self_emission |-> VZero,
     reflect_color |-> VZero, refract_color |-> VZero,
     reflect_calls |-> 0, refract_calls |-> 0, refract_kind |-> "none"]

\* the value of returned before any call has returned
NoReturn == [frame |-> Frame(PtOfVec(VZero), VZero, 0), via |-> "none", color |-> VZero]

Top == stack[Len(stack)]

\* the stack with its innermost frame replaced by f
WithTop(f) == [stack EXCEPT ![Len(stack)] = f]

\* the depth test that never ends the recursion
DepthNeverExceeded(depth) == FALSE

\* the depth test one level late
DepthExceededLate(depth) == depth > MaxDepth + 1

\* if depth > 3 (main.rs 106)
DepthExceeded(depth) == depth > MaxDepth

\* the innermost call returns color: to its caller, which stores it as the
\* value of the branch it was evaluating, or to render
Return(color, via) ==
    /\ returned' = [frame |-> Top, via |-> via, color |-> color]
    /\ leaves' = IF Top.reflect_calls + Top.refract_calls = 0
                 THEN leaves + 1 ELSE leaves
    /\ IF Len(stack) = 1
       THEN /\ stack' = << >>
            /\ result' = color
            /\ phase' = "cast_done"
       ELSE LET caller == stack[Len(stack) - 1]
                resumed == IF caller.pc = "wait_reflect"
                           THEN [caller EXCEPT !.reflect_color = color,
                                               !.pc = "refract"]
                           ELSE [caller EXCEPT !.refract_color = color,
                                               !.pc = "final"]
            IN  /\ stack' = SubSeq(stack, 1, Len(stack) - 2) \o <<resumed>>
                /\ UNCHANGED <<result, phase>>
    /\ UNCHANGED <<layers, emissive_sum, sample,
                   objects, light, ray, isect, shadow, calls, refracted,
                   pixel_buffer, framebuffer, row_x, copy_i>>

\* the innermost call makes a recursive call and waits for it
Call(waiting, ray_origin, ray_direction) ==
    /\ stack' = WithTop(waiting) \o <<Frame(ray_origin, ray_direction, Top.depth + 1)>>
    /\ calls' = calls + 1
    /\ UNCHANGED <<layers, emissive_sum, sample,
                   objects, light, ray, isect, shadow, result, leaves, returned,
                   refracted, pixel_buffer, framebuffer, row_x, copy_i, phase>>

\* the innermost call goes on without a call
Step(f) ==
    /\ stack' = WithTop(f)
    /\ UNCHANGED <<layers, emissive_sum, sample,
                   objects, light, ray, isect, shadow, result, calls, leaves,
                   returned, refracted, pixel_buffer, framebuffer, row_x, copy_i,
                   phase>>

Running(pc) == phase = "cast" /\ stack # << >> /\ Top.pc = pc

\* main.rs 106-108
CastRayDepthExceeded ==
    /\ Running("start")
    /\ DepthExceeded(Top.depth)
    /\ Return(SKYBOX_COLOR, "depth")

\* main.rs 110-123, no cube hit
CastRayMiss ==
    /\ Running("start")
    /\ ~DepthExceeded(Top.depth)
    /\ ~NearestHit(objects, Top.ray_origin, Top.ray_direction).is_intersecting
    /\ Return(SKYBOX_COLOR, "miss")

\* main.rs 110-236, a cube hit
CastRayShade ==
    /\ Running("start")
    /\ ~DepthExceeded(Top.depth)
    /\ LET intersect == NearestHit(objects, Top.ray_origin, Top.ray_direction)
           sh == Shade(Top.ray_origin, Top.ray_direction, intersect, light, objects)
       IN  /\ intersect.is_intersecting
           /\ Step([Top EXCEPT !.pc = "reflect", !.intersect = intersect,
                               !.normal = sh.normal,
                               !.phong_color = sh.phong_color,
                               !.emissive_light = sh.emissive_light,
                               !.self_emission = sh.self_emission])

\* main.rs 238-242
CastRayReflect ==
    /\ Running("reflect")
    /\ Top.intersect.material.albedo[3] > 0
    /\ LET reflect_dir == DirNorm(Reflect(Top.ray_direction, Top.normal))
           reflect_origin == OffsetOrigin(Top.intersect, reflect_dir)
       IN  Call([Top EXCEPT !.pc = "wait_reflect", !.reflect_calls = @ + 1],
                reflect_origin, reflect_dir)

\* main.rs 243-245
CastRayNoReflect ==
    /\ Running("reflect")
    /\ ~(Top.intersect.material.albedo[3] > 0)
    /\ Step([Top EXCEPT !.pc = "refract", !.reflect_color = VZero])

\* main.rs 247-251
CastRayRefract ==
    /\ Running("refract")
    /\ Top.intersect.material.albedo[4] > 0
    /\ LET r == Refract(Top.ray_direction, Top.normal,
                        Top.intersect.material.refractive_index)
           refract_origin == OffsetOrigin(Top.intersect, r.dir)
       IN  /\ r.some
           /\ Call([Top EXCEPT !.pc = "wait_refract", !.refract_calls = @ + 1,
                               !.refract_kind = "refracted"],
                   refract_origin, r.dir)

\* the fallback that casts no ray on total internal reflection
CastRayTIRDropped ==
    /\ Running("refract")
    /\ Top.intersect.material.albedo[4] > 0
    /\ ~Refract(Top.ray_direction, Top.normal,
                Top.intersect.material.refractive_index).some
    /\ Step([Top EXCEPT !.pc = "final", !.refract_color = VZero,
                        !.refract_kind = "tir"])

\* main.rs 252-256: total internal reflection
CastRayTIR ==
    /\ Running("refract")
    /\ Top.intersect.material.albedo[4] > 0
    /\ ~Refract(Top.ray_direction, Top.normal,
                Top.intersect.material.refractive_index).some
    /\ LET reflect_dir == DirNorm(Reflect(Top.ray_direction, Top.normal))
           reflect_origin == OffsetOrigin(Top.intersect, reflect_dir)
       IN  Call([Top EXCEPT !.pc = "wait_refract", !.refract_calls = @ + 1,
                            !.refract_kind = "tir"],
                reflect_origin, reflect_dir)

\* main.rs 257-259
CastRayNoRefract ==
    /\ Running("refract")
    /\ ~(Top.intersect.material.albedo[4] > 0)
    /\ Step([Top EXCEPT !.pc = "final", !.refract_color = VZero])

\* main.rs 261
CastRayFinal ==
    /\ Running("final")
    /\ Return(FinalColor(Top), "shaded")

Next ==
    \/ CastRayDepthExceeded
    \/ CastRayMiss
    \/ CastRayShade
    \/ CastRayReflect
    \/ CastRayNoReflect
    \/ CastRayRefract
    \/ CastRayTIR
    \/ CastRayNoRefract
    \/ CastRayFinal

----------------------------------------------------------------------------
(* The scenes, lights and primary rays of the model *)

Glass == GlassOf(5, 1)

CubeAt(a, b, c, m) == Cube(Vec(a, b, c), 2 * CubeHalf, m)

\* six mirrors closing the cavity around the origin
MirrorBox ==
    <<CubeAt(-2 * CubeHalf, 0, 0, Mirror), CubeAt(2 * CubeHalf, 0, 0, Mirror),
      CubeAt(0, -2 * CubeHalf, 0, Mirror), CubeAt(0, 2 * CubeHalf, 0, Mirror),
      CubeAt(0, 0, -2 * CubeHalf, Mirror), CubeAt(0, 0, 2 * CubeHalf, Mirror)>>

\* four glass cubes in a row along x, a gap of 2 between neighbours, the
\* origin in the middle gap
GlassRow ==
    <<CubeAt(-(3 * CubeHalf + 3), 0, 0, Glass), CubeAt(-(CubeHalf + 1), 0, 0, Glass),
      CubeAt(CubeHalf + 1, 0, 0, Glass), CubeAt(3 * CubeHalf + 3, 0, 0, Glass)>>

Scenes ==
    {MirrorBox, GlassRow,
     <<CubeAt(0, 0, 0, Mirror)>>,
     <<CubeAt(0, 0, 0, Matte)>>,
     <<CubeAt(0, 0, 0, Glass)>>,
     <<CubeAt(0, -1, 0, Clay)>>,
     <<CubeAt(0, 0, 0, Matte), CubeAt(0, 0, 0, Mirror)>>,
     <<CubeAt(0, 0, 0, Mirror), CubeAt(0, 0, 0, Matte)>>,
     <<CubeAt(-CubeHalf, 0, 0, Matte), CubeAt(CubeHalf, 0, 0, Mirror),
       CubeAt(CubeHalf, 2 * CubeHalf, 0, Glass)>>,
     <<CubeAt(0, 0, 0, Mirror), CubeAt(1, 3 * CubeHalf, 0, Matte)>>,
     <<CubeAt(0, 0, 0, Matte), CubeAt(0, 100 + CubeHalf, 0, Glow)>>,
     <<CubeAt(0, 0, 0, Mirror), CubeAt(0, 100 + CubeHalf, 0, Glow)>>}

CastLights ==
    {[position |-> Vec(0, 12 * CubeHalf, 0), color |-> Vec(255, 255, 255),
      intensity |-> 100],
     [position |-> Vec(7 * CubeHalf, 9 * CubeHalf, 1), color |-> Vec(255, 200, 150),
      intensity |-> 150]}

\* a scene of one cube is lit from two more heights straight above it
LightsOf(objs) ==
    IF Len(objs) = 1
    THEN CastLights \cup
         {[position |-> Vec(0, b, 0), color |-> Vec(255, 255, 255), intensity |-> 100] :
             b \in {CubeHalf + 1, 5 * CubeHalf}}
    ELSE CastLights

CastOrigins ==
    {Vec(0, 0, 0), Vec(CubeHalf + 1, 1, 0), Vec(0, CubeHalf + 3, 0),
     Vec(-1, CubeHalf + 3, 0), Vec(-(CubeHalf + 3), CubeHalf + 3, 0),
     Vec(-(CubeHalf + 3), 0, 0), Vec(CubeHalf - 1, CubeHalf + 2, CubeHalf)}

\* the primary directions; the row of four glass cubes is entered along the
\* axes and diagonals only, which keeps every coordinate of its sixteen paths
\* within 32 bits
CastDirs(objs) ==
    IF objs = GlassRow THEN Dirs(1, 1)
    ELSE Dirs(1, 1) \cup {Vec(1, -2, 0), Vec(-1, -2, 0), Vec(2, -1, 0), Vec(-2, 1, 0)}

Init ==
    /\ phase = "cast"
    /\ objects \in Scenes
    /\ \E l \in LightsOf(objects) :
          /\ \A k \in 1..Len(objects) : Outside(objects[k], PtOfVec(l.position))
          /\ light = l
    /\ \E o \in CastOrigins, D \in CastDirs(objects) :
          ray = [origin |-> PtOfVec(o), direction |-> D]
    /\ isect = "none"
    /\ shadow = "none"
    /\ IdleBlocks
    /\ IdleSample
    /\ refracted = "none"
    /\ stack = <<Frame(ray.origin, ray.direction, 0)>>
    /\ result = "none"
    /\ calls = 1
    /\ leaves = 0
    /\ returned = NoReturn
    /\ IdleRender

Spec == Init /\ [][Next]_vars

----------------------------------------------------------------------------
(* The recursion of cast_ray *)

Pow2(n) == 2 ^ n

\* a call beyond the bound has done nothing: no intersection, no shading, no call
Untouched(f) ==
    /\ f.pc = "start"
    /\ f.intersect = IntersectEmpty
    /\ f.phong_color = VZero /\ f.emissive_light = VZero /\ f.self_emission = VZero
    /\ f.reflect_calls + f.refract_calls = 0

C1_Depths ==
    /\ stack # << >> => stack[1].depth = 0
    /\ \A i \in 1..(Len(stack) - 1) :
          /\ stack[i + 1].depth = stack[i].depth + 1
          /\ stack[i].pc \in {"wait_reflect", "wait_refract"}
          /\ stack[i].depth <= MaxDepth
    /\ \A i \in 1..Len(stack) : stack[i].depth > MaxDepth => Untouched(stack[i])
    /\ returned.via # "none" /\ returned.frame.depth > MaxDepth
          => /\ returned.via = "depth"
             /\ returned.color = SKYBOX_COLOR
             /\ Untouched(returned.frame)
    /\ calls <= Pow2(MaxDepth + 2) - 1

\* the most steps a call at depth d can still take, its callees' included:
\* a call beyond the bound returns at once; another shades, takes the
\* reflection branch, takes the refraction branch and returns
RECURSIVE Budget(_)
Budget(d) == IF d > MaxDepth THEN 1 ELSE 4 + 2 * Budget(d + 1)

\* the steps frame f can still take, those of a callee on the stack excluded
Remaining(f) ==
    CASE f.pc = "start" -> Budget(f.depth)
      [] f.pc = "reflect" -> 3 + 2 * Budget(f.depth + 1)
      [] f.pc = "wait_reflect" -> 2 + Budget(f.depth + 1)
      [] f.pc = "refract" -> 2 + Budget(f.depth + 1)
      [] f.pc = "wait_refract" -> 1
      [] f.pc = "final" -> 1

RECURSIVE Variant(_, _)
Variant(stk, k) == IF k > Len(stk) THEN 0 ELSE Remaining(stk[k]) + Variant(stk, k + 1)

\* a call that has not returned can take a step
CanStep ==
    phase # "cast_done"
        => /\ phase = "cast"
           /\ stack # << >>
           /\ Top.pc \in {"start", "reflect", "refract", "final"}

\* C1: cast_ray called with depth 0 terminates, in every scene of the model,
\* the closed box of six perfect mirrors included: every call on the stack has
\* a depth exactly one greater than its caller's, a call whose depth exceeds
\* the bound returns SKYBOX_COLOR having intersected and shaded nothing, a call
\* that has not returned can always take a step, and every step lowers a
\* natural number, the count of the steps the calls on the stack can still
\* take, which is at most Budget(0) at the start.
C1_CastRayTerminates ==
    /\ [](C1_Depths /\ CanStep /\ Variant(stack, 1) <= Budget(0))
    /\ [][Variant(stack', 1) < Variant(stack, 1)]_vars

\* the ray in the mirror box has bounced down to the bound and come back
C1_Witness ==
    /\ phase = "cast_done"
    /\ objects = MirrorBox
    /\ calls = MaxDepth + 2
    /\ returned.frame.depth = 0
    /\ returned.frame.reflect_calls = 1

----------------------------------------------------------------------------
(* The fan-out of a primary ray *)

\* C2 as stated: a primary ray produces at most 2^3 = 8 leaf rays, terminal
\* cast_ray calls of the tree of reflection and refraction branches.
C2_AtMost8Leaves == leaves <= Pow2(MaxDepth)

\* C2: the calls at depths 0 to 3 all branch and those at depth 4 are the
\* terminal ones, so a primary ray produces at most 2^4 = 16 terminal cast_ray
\* calls, among at most 31 calls in all; a terminal call is one that returned
\* without calling cast_ray.
C2_AtMost16Leaves ==
    /\ leaves <= Pow2(MaxDepth + 1)
    /\ calls <= Pow2(MaxDepth + 2) - 1
    /\ phase = "cast_done" => leaves >= 1 /\ 2 * leaves <= calls + 1

\* both branches taken at every depth down to the bound
C2_Witness ==
    /\ phase = "cast_done"
    /\ leaves = Pow2(MaxDepth + 1)
    /\ calls = Pow2(MaxDepth + 2) - 1

----------------------------------------------------------------------------
(* The hit that cast_ray shades *)

MaxPerm == 4

\* what the ray of call f hits on objs[k]
HitOf(objs, k, f) == RayIntersect(objs[k], f.ray_origin, f.ray_direction)

SameDistance(a, b) == ~FLt(a, b) /\ ~FLt(b, a)

\* objs[k] is hit, no cube is hit nearer, and no cube before it is hit as near
Nearest(objs, k, f) ==
    /\ HitOf(objs, k, f).is_intersecting
    /\ \A j \in 1..Len(objs) :
          HitOf(objs, j, f).is_intersecting
              => /\ ~FLt(HitOf(objs, j, f).distance, HitOf(objs, k, f).distance)
                 /\ j < k => FLt(HitOf(objs, k, f).distance, HitOf(objs, j, f).distance)

NoHit(objs, f) == \A j \in 1..Len(objs) : ~HitOf(objs, j, f).is_intersecting

\* two cubes are hit at the same distance, the smallest of all
TieAtNearest(objs, f) ==
    \E i, j \in 1..Len(objs) :
        /\ i < j
        /\ Nearest(objs, i, f)
        /\ HitOf(objs, j, f).is_intersecting
        /\ SameDistance(HitOf(objs, i, f).distance, HitOf(objs, j, f).distance)

Perms(n) == {p \in [1..n -> 1..n] : \A i, j \in 1..n : i # j => p[i] # p[j]}

Swaps(n) ==
    {[i \in 1..n |-> IF i = a THEN b ELSE IF i = b THEN a ELSE i] : a, b \in 1..n}

\* the orders of a list of n cubes that are tried: all of them for a short list,
\* the exchanges of two cubes for a longer one
Orders(n) == IF n <= MaxPerm THEN Perms(n) ELSE Swaps(n)

Permuted(objs, p) == [i \in 1..Len(objs) |-> objs[p[i]]]

----------------------------------------------------------------------------
(* The refraction branch of cast_ray *)

\* what refract returns for the hit of call f
RefractOf(f) ==
    Refract(f.ray_direction, f.normal, f.intersect.material.refractive_index)

\* the ray the refraction branch of call f casts: the refracted one, or the
\* reflected one on total internal reflection
RefractionRay(f) ==
    IF RefractOf(f).some THEN RefractOf(f).dir
    ELSE DirNorm(Reflect(f.ray_direction, f.normal))

\* caller waits in its refraction branch for callee
RefractionCall(caller, callee) ==
    /\ caller.intersect.material.albedo[4] > 0
    /\ caller.refract_calls = 1
    /\ caller.refract_kind = IF RefractOf(caller).some THEN "refracted" ELSE "tir"
    /\ callee.depth = caller.depth + 1
    /\ callee.ray_direction = RefractionRay(caller)
    /\ callee.ray_origin = OffsetOrigin(caller.intersect, RefractionRay(caller))

\* call f is past its refraction branch
RefractionDone(f) ==
    IF f.intersect.material.albedo[4] > 0
    THEN /\ f.refract_calls = 1
         /\ f.refract_kind = IF RefractOf(f).some THEN "refracted" ELSE "tir"
    ELSE f.refract_calls = 0 /\ f.refract_color = VZero

C8_Refraction ==
    /\ \A i \in 1..(Len(stack) - 1) :
          stack[i].pc = "wait_refract" => RefractionCall(stack[i], stack[i + 1])
    /\ \A i \in 1..Len(stack) :
          /\ stack[i].pc = "final" => RefractionDone(stack[i])
          /\ stack[i].pc \in {"start", "reflect", "wait_reflect", "refract"}
                => stack[i].refract_calls = 0
    /\ returned.via = "shaded" => RefractionDone(returned.frame)

\* a callee returns to a caller that waits in its refraction branch
ReturnsToRefraction ==
    /\ Len(stack) >= 2
    /\ Len(stack') = Len(stack) - 1
    /\ stack[Len(stack) - 1].pc = "wait_refract"

\* C8: on a hit of a material with refract_w > 0 cast_ray calls itself once in
\* the refraction branch, at depth + 1 from the bias-offset origin: along the
\* refracted direction when refract returns one, along reflect(direction,
\* normal) when it reports total internal reflection; the colour that call
\* returns becomes the refraction colour, and the caller goes on to its result.
C8_TotalInternalReflection ==
    /\ [](C8_Refraction)
    /\ [][ReturnsToRefraction
            => /\ stack'[Len(stack')].refract_color = returned'.color
               /\ stack'[Len(stack')].pc = "final"
               /\ stack'[Len(stack')].refract_kind = stack[Len(stack) - 1].refract_kind]_vars

\* a call whose refraction branch fell back to the reflected ray has the colour
\* of that ray and is about to return
C8_Witness ==
    /\ phase = "cast"
    /\ Top.pc = "final"
    /\ Top.refract_kind = "tir"
    /\ Top.refract_calls = 1
    /\ ~RefractOf(Top).some
    /\ Top.refract_color # VZero

----------------------------------------------------------------------------
(* A perfect mirror under an empty sky *)

\* the hit of call f is on a non-emissive material with albedo [0, 0, 1, 0]
MirrorHit(f) ==
    /\ f.intersect.is_intersecting
    /\ f.intersect.material.albedo = <<0, 0, 100, 0>>
    /\ ~f.intersect.material.is_emissive

\* the hit of call f is its hit on objects[k]
HitOn(k, f) ==
    /\ HitOf(objects, k, f).is_intersecting
    /\ HitOf(objects, k, f) = f.intersect

\* the hit of call f lies on one face of the cube it is on, off its edges
FlatFace(f) ==
    \E k \in 1..Len(objects) :
        /\ HitOn(k, f)
        /\ Cardinality(Matched(objects[k], f.intersect.point)) = 1

\* reflect(direction, normal) for the hit of call f
ReflectedDir(f) ==
    VSub(f.ray_direction,
         VScale(f.intersect.normal, 2 * Dot(f.ray_direction, f.intersect.normal)))

\* the hit point moved by ORIGIN_BIAS along the normal, to the side of the
\* reflected direction
BiasOffset(f) ==
    PtAlong(f.intersect.point, f.intersect.normal,
            IF Dot(ReflectedDir(f), f.intersect.normal) < 0
            THEN Rat(-ORIGIN_BIAS, 1) ELSE Rat(ORIGIN_BIAS, 1))

\* the reflected ray of call f hits no cube other than the one f hit
NothingElseHit(f) ==
    \A k \in 1..Len(objects) :
        ~HitOn(k, f)
            => ~RayIntersect(objects[k], BiasOffset(f), ReflectedDir(f)).is_intersecting

NoEmissive == \A k \in 1..Len(objects) : ~objects[k].material.is_emissive

\* the ray of call f starts outside the cube it hits and meets one face of it,
\* off its edges
FlatFaceFromOutside(f) ==
    \E k \in 1..Len(objects) :
        /\ HitOn(k, f)
        /\ Cardinality(Matched(objects[k], f.intersect.point)) = 1
        /\ Outside(objects[k], f.ray_origin)

\* the case of C10: a mirror hit from outside, no emissive cube, and nothing
\* but the mirror cube in the way of the reflected ray
MirrorUnderSky(f) ==
    /\ MirrorHit(f)
    /\ FlatFaceFromOutside(f)
    /\ NoEmissive
    /\ NothingElseHit(f)

----------------------------------------------------------------------------
(* The end-to-end case: one diffuse cube, a white light straight above it,    *)
(* the primary ray straight down on the centre of its top face                *)

\* the point straight above the centre of the cube, strictly above its top
Above(cube, p) ==
    /\ p.x = cube.center.x * p.w
    /\ p.z = cube.center.z * p.w
    /\ p.y > CubeMax(cube).y * p.w

\* the centre of the top face of the cube
TopCentre(cube) == PtOfVec(Vec(cube.center.x, CubeMax(cube).y, cube.center.z))

DiffuseCubeLitFromAbove ==
    /\ Len(objects) = 1
    /\ ~objects[1].material.is_emissive
    /\ objects[1].material.texture_id = "None"
    /\ objects[1].material.albedo = <<100, 0, 0, 0>>
    /\ light.color = Vec(255, 255, 255)
    /\ light.intensity = 100
    /\ Above(objects[1], PtOfVec(light.position))
    /\ Above(objects[1], ray.origin)
    /\ ray.direction = Vec(0, -1, 0)

(* C11: for a single untextured, non-emissive cube with albedo [1, 0, 0, 0],  *)
(* a white light of intensity 1 straight above it and a primary ray straight  *)
(* down on the centre of its top face, cast_ray at depth 0 hits that centre   *)
(* with the normal pointing up, finds the hit unshadowed (the cube does not   *)
(* shadow its own lit face), makes no reflection or refraction call, so that  *)
(* it is the only call, and returns the base colour of the cube times 1.0.    *)
C11_DiffuseCubeFullyLit ==
    DiffuseCubeLitFromAbove =>
        /\ calls = 1
        /\ Len(stack) <= 1
        /\ \A i \in 1..Len(stack) :
              /\ stack[i].depth = 0
              /\ stack[i].reflect_calls = 0
              /\ stack[i].refract_calls = 0
              /\ stack[i].pc \in {"start", "reflect", "refract", "final"}
              /\ stack[i].pc # "start" =>
                    /\ stack[i].intersect.is_intersecting
                    /\ stack[i].intersect.point = TopCentre(objects[1])
                    /\ stack[i].intersect.normal = Vec(0, 1, 0)
                    /\ stack[i].normal = Vec(0, 1, 0)
                    /\ CastShadow(stack[i].intersect, light, objects) = 0
                    /\ stack[i].phong_color = objects[1].material.diffuse
                    /\ stack[i].emissive_light = VZero
                    /\ stack[i].self_emission = VZero
        /\ phase = "cast_done" =>
              /\ returned.via = "shaded"
              /\ returned.frame.depth = 0
              /\ returned.frame.reflect_calls = 0
              /\ returned.frame.refract_calls = 0
              /\ returned.color = objects[1].material.diffuse
              /\ result = CScale(objects[1].material.diffuse, 100)
              /\ leaves = 1

\* the call returned the colour of the clay cube, lit from the nearest of the
\* lights above it
C11_Witness ==
    /\ phase = "cast_done"
    /\ DiffuseCubeLitFromAbove
    /\ objects[1].material = Clay
    /\ light.position = Vec(0, CubeHalf + 1, 0)
    /\ returned.frame.intersect.point = TopCentre(objects[1])
    /\ result = Vec(60, 40, 20)
    /\ calls = 1

----------------------------------------------------------------------------
(* render: one task per row of the temporary pixel buffer, then the copy to   *)
(* the framebuffer (main.rs 264-305). Rows and columns count from 0; a buffer *)
(* index i is the element i + 1 of the sequence.                              *)

Width == 3

Height == 4

\* Color::BLACK
BLACK == Vec(0, 0, 0)

\* screen_x and screen_y of pixel (x, y), in units of aspect_ratio *
\* perspective_scale and of perspective_scale (main.rs 283-287)
ScreenX(x) == Rat(2 * x - Width, Width)

ScreenY(y) == Rat(Height - 2 * y, Height)

\* the colour of pixel (x, y): what cast_ray returns at depth 0 for the ray
\* from the eye through the pixel, a function of the pixel, the camera, the
\* scene and the light (main.rs 283-293)
PixelColor(x, y) ==
    [cast_ray |-> [ray_origin |-> ray.origin, forward |-> ray.direction,
                   screen_x |-> ScreenX(x), screen_y |-> ScreenY(y),
                   objects |-> Len(objects), light |-> light.position, depth |-> 0]]

\* the place in pixel_buffer of element x of chunk y of par_chunks_mut(width)
ChunkIndex(y, x) == y * Width + x

\* Framebuffer::set_pixel_color: row-major, index y * width + x
SetPixelColor(fb, x, y, color) == [fb EXCEPT ![y * Width + x + 1] = color]

InitRender ==
    /\ phase = "render_rows"
    /\ objects \in {<<CubeAt(0, 0, 0, Mirror)>>, GlassRow}
    /\ light \in CastLights
    /\ ray = [origin |-> PtOfVec(Vec(0, 0, 5 * CubeHalf)), direction |-> Vec(0, 0, -1)]
    /\ pixel_buffer = [i \in 1..(Width * Height) |-> BLACK]
    /\ framebuffer = [i \in 1..(Width * Height) |-> BLACK]
    /\ row_x = [y \in 1..Height |-> 0]
    /\ copy_i = 0
    /\ isect = "none"
    /\ shadow = "none"
    /\ IdleBlocks
    /\ IdleSample
    /\ IdleCast

\* the task of row y computes its next pixel and writes it to its chunk
RowStep(y) ==
    /\ phase = "render_rows"
    /\ row_x[y + 1] < Width
    /\ pixel_buffer' = [pixel_buffer EXCEPT ![ChunkIndex(y, row_x[y + 1]) + 1] =
                            PixelColor(row_x[y + 1], y)]
    /\ row_x' = [row_x EXCEPT ![y + 1] = @ + 1]
    /\ UNCHANGED <<layers, emissive_sum, sample,
                   objects, light, ray, isect, shadow, stack, result, calls, leaves,
                   returned, refracted, framebuffer, copy_i, phase>>

\* for_each returns once every one of its tasks has
RowsFinishedAny == \E y \in 0..(Height - 1) : row_x[y + 1] = Width

RowsFinished == \A y \in 0..(Height - 1) : row_x[y + 1] = Width

Join ==
    /\ phase = "render_rows"
    /\ RowsFinished
    /\ phase' = "render_copy"
    /\ UNCHANGED <<layers, emissive_sum, sample,
                   objects, light, ray, isect, shadow, stack, result, calls, leaves,
                   returned, refracted, pixel_buffer, framebuffer, row_x, copy_i>>

\* one pass of the inner loop of the copy (main.rs 299-304)
CopyStep ==
    /\ phase = "render_copy"
    /\ copy_i < Width * Height
    /\ LET y == copy_i \div Width
           x == copy_i % Width
           index == y * Width + x
       IN  framebuffer' = SetPixelColor(framebuffer, x, y, pixel_buffer[index + 1])
    /\ copy_i' = copy_i + 1
    /\ UNCHANGED <<layers, emissive_sum, sample,
                   objects, light, ray, isect, shadow, stack, result, calls, leaves,
                   returned, refracted, pixel_buffer, row_x, phase>>

RenderReturn ==
    /\ phase = "render_copy"
    /\ copy_i = Width * Height
    /\ phase' = "render_done"
    /\ UNCHANGED <<layers, emissive_sum, sample,
                   objects, light, ray, isect, shadow, stack, result, calls, leaves,
                   returned, refracted, pixel_buffer, framebuffer, row_x, copy_i>>

NextRender ==
    \/ \E y \in 0..(Height - 1) : RowStep(y)
    \/ Join
    \/ CopyStep
    \/ RenderReturn

SpecRender == InitRender /\ [][NextRender]_vars

----------------------------------------------------------------------------
(* The frame that render publishes *)

Pixels == (0..(Width - 1)) \X (0..(Height - 1))

\* pixel (x, y) has been computed: the task of row y is past column x
Computed(x, y) == x < row_x[y + 1]

\* every pixel has been computed
AllComputed == \A xy \in Pixels : Computed(xy[1], xy[2])

\* what the buffers hold while render runs
C7_Buffers ==
    /\ \A xy \in Pixels :
          pixel_buffer[xy[2] * Width + xy[1] + 1]
              = IF Computed(xy[1], xy[2]) THEN PixelColor(xy[1], xy[2]) ELSE BLACK
    /\ phase = "render_rows" => framebuffer = [i \in 1..(Width * Height) |-> BLACK]
    /\ phase \in {"render_copy", "render_done"} => AllComputed
    /\ phase = "render_done"
          => \A xy \in Pixels :
                 framebuffer[xy[2] * Width + xy[1] + 1] = PixelColor(xy[1], xy[2])

\* the places at which two buffers differ
Changed(old, new) == {i \in 1..(Width * Height) : old[i] # new[i]}

\* a step of the task of row y: it computes pixel (row_x[y], y), no other
\* task does, and it writes nothing but that pixel's place in its own row
RowTaskStep(y) ==
    /\ row_x' = [row_x EXCEPT ![y + 1] = row_x[y + 1] + 1]
    /\ row_x[y + 1] < Width
    /\ Changed(pixel_buffer, pixel_buffer') = {y * Width + row_x[y + 1] + 1}
    /\ pixel_buffer'[y * Width + row_x[y + 1] + 1] = PixelColor(row_x[y + 1], y)
    /\ framebuffer' = framebuffer

\* C7: every pixel (x, y) is computed by one step of the task of row y, the
\* only one that writes its place y*width + x of the pixel buffer, and that
\* step leaves the scene, the light and the camera as they are; the
\* framebuffer is written only once every row task has finished; and for
\* every order in which the row tasks take their steps the framebuffer holds
\* at y*width + x, when render returns, the colour computed for pixel (x, y).
C7_RenderRows ==
    /\ [](C7_Buffers)
    /\ [][/\ <<objects, light, ray>>' = <<objects, light, ray>>
          /\ row_x' # row_x => \E y \in 0..(Height - 1) : RowTaskStep(y)
          /\ pixel_buffer' # pixel_buffer => row_x' # row_x
          /\ framebuffer' # framebuffer => AllComputed /\ row_x' = row_x]_vars

\* render has returned with the frame in the framebuffer, row after row
C7_Witness ==
    /\ phase = "render_done"
    /\ copy_i = Width * Height
    /\ framebuffer[1] = PixelColor(0, 0)
    /\ framebuffer[Width * Height] = PixelColor(Width - 1, Height - 1)
    /\ framebuffer[Width + 1] = PixelColor(0, 1)
    /\ framebuffer[Width + 1] # framebuffer[2]

----------------------------------------------------------------------------
(* blocks.rs: the cubes of a scene given as layers of lines of letters.       *)
(* A line is a sequence of one-character strings; lengths are in units of     *)
(* 1e-4, indices count from 0 as in the code.                                 *)

GRID_SIZE_X == 9

GRID_SIZE_Y == 5

\* CUBE_SIZE = 0.5
CUBE_SIZE == 5000

\* CUBE_SPACING = 0.5
CUBE_SPACING == 5000

\* the model has up to MaxLayers layers, of up to GRID_SIZE_Y + ExtraRows lines
\* of up to GRID_SIZE_X + ExtraCols letters
MaxLayers == 2

ExtraRows == 1

ExtraCols == 1

\* Option<Material> and Option<Cube>
Nothing == [some |-> FALSE]

Just(v) == [some |-> TRUE, value |-> v]

\* Material::new with Some(texture) and no normal map
Textured(diffuse, specular, albedo, ri_num, ri_den, texture) ==
    [Material(diffuse, specular, albedo, ri_num, ri_den, FALSE, 0, VZero)
        EXCEPT !.texture_id = texture]

GetMaterialFromLetter(letter) ==
    CASE letter = "R" ->
           Just(Textured(Vec(80, 20, 20), 10, <<90, 10, 0, 0>>, 0, 1, "assets/Furnace.png"))
      [] letter = "B" ->
           Just(Textured(Vec(80, 40, 20), 20, <<80, 20, 0, 0>>, 0, 1,
                         "assets/Bookshelf.png"))
      [] letter = "I" ->
           Just(Textured(Vec(40, 40, 30), 50, <<60, 30, 10, 0>>, 0, 1,
                         "assets/obsidiana.png"))
      [] letter = "G" ->
           Just(Textured(Vec(50, 80, 100), 125, <<0, 30, 40, 80>>, 16, 5,
                         "assets/glass.png"))
      [] letter = "Y" ->
           Just([Material(Vec(90, 90, 20), 30, <<70, 30, 0, 0>>, 0, 1, TRUE, 60,
                          Vec(100, 95, 30))
                    EXCEPT !.texture_id = "assets/glowstone.png"])
      [] letter = "P" ->
           Just(Textured(Vec(80, 20, 80), 15, <<80, 20, 0, 0>>, 0, 1, "assets/chest.png"))
      [] letter = "C" ->
           Just(Textured(Vec(20, 80, 80), 25, <<70, 30, 0, 0>>, 0, 1, "assets/chest.png"))
      [] letter = "W" ->
           Just(Textured(Vec(90, 90, 90), 40, <<60, 40, 0, 0>>, 0, 1,
                         "assets/wood_planks.png"))
      [] letter = "K" ->
           Just(Textured(Vec(10, 10, 10), 5, <<90, 10, 0, 0>>, 0, 1,
                         "assets/obsidiana.png"))
      [] OTHER -> Nothing

\* the centre of the cube of cell (grid_x, grid_y) of a layer (blocks.rs 97-101)
CubeCenter(grid_x, grid_y, layer) ==
    LET offset_x == ((GRID_SIZE_X - 1) * CUBE_SPACING) \div 2
        offset_z == ((GRID_SIZE_Y - 1) * CUBE_SPACING) \div 2
    IN  Vec(grid_x * CUBE_SPACING - offset_x, layer * CUBE_SPACING,
            grid_y * CUBE_SPACING - offset_z)

CreateCubeFromLetter(letter, grid_x, grid_y, layer) ==
    IF GetMaterialFromLetter(letter).some
    THEN Just(Cube(CubeCenter(grid_x, grid_y, layer), CUBE_SIZE,
                   GetMaterialFromLetter(letter).value))
    ELSE Nothing

\* what cubes.push(cube) appends when there is a cube
Pushed(cube) == IF cube.some THEN <<cube.value>> ELSE << >>

\* the loop over the letters of a line that does not stop at GRID_SIZE_X
RECURSIVE LineLoopUnbounded(_, _, _, _)
LineLoopUnbounded(chars, x, y, layer_idx) ==
    IF x >= Len(chars) THEN << >>
    ELSE Pushed(CreateCubeFromLetter(chars[x + 1], x, y, layer_idx))
         \o LineLoopUnbounded(chars, x + 1, y, layer_idx)

\* the cubes pushed by the loop over the letters of a line from index x on
\* (blocks.rs 161-169)
RECURSIVE LineLoop(_, _, _, _)
LineLoop(chars, x, y, layer_idx) ==
    IF x >= Len(chars) THEN << >>
    ELSE IF x >= GRID_SIZE_X THEN << >>
    ELSE Pushed(CreateCubeFromLetter(chars[x + 1], x, y, layer_idx))
         \o LineLoop(chars, x + 1, y, layer_idx)

\* the cubes pushed by the loop over the lines of a layer from index y on
\* (blocks.rs 155-170)
RECURSIVE LayerLoop(_, _, _)
LayerLoop(layer, y, layer_idx) ==
    IF y >= Len(layer) THEN << >>
    ELSE IF y >= GRID_SIZE_Y THEN << >>
    ELSE LineLoop(layer[y + 1], 0, y, layer_idx) \o LayerLoop(layer, y + 1, layer_idx)

\* the cubes pushed by the loop over the layers from index layer_idx on
\* (blocks.rs 154-171)
RECURSIVE LayersLoop(_, _)
LayersLoop(lyrs, layer_idx) ==
    IF layer_idx >= Len(lyrs) THEN << >>
    ELSE LayerLoop(lyrs[layer_idx + 1], 0, layer_idx) \o LayersLoop(lyrs, layer_idx + 1)

\* cubes starts empty and is returned after the loops
CreateCubesFromLayers(lyrs) == LayersLoop(lyrs, 0)

----------------------------------------------------------------------------
(* create_cubes_from_layers applied to the first layers of the scene of       *)
(* blocks.rs followed by one more layer                                       *)

LAYER_0 ==
    <<<<"W", "W", "W", "W", "W", "W", "W", "W", "W">>,
      <<"W", "W", "W", "W", "W", "W", "W", "W", "W">>,
      <<"W", "W", "W", "W", "W", "W", "W", "W", "W">>,
      <<"W", "W", "W", "W", "W", "W", "W", "W", "W">>,
      <<"W", "W", "W", "W", "W", "W", "W", "W", "W">>>>

LAYER_1 ==
    <<<<" ", " ", " ", " ", " ", " ", " ", " ", " ">>,
      <<" ", "B", "B", "B", "B", "B", "B", "B", " ">>,
      <<" ", "G", "R", " ", "I", "Y", "P", "G", " ">>,
      <<" ", " ", " ", " ", " ", " ", " ", " ", " ">>,
      <<" ", " ", " ", " ", " ", " ", " ", " ", " ">>>>

LAYER_2 ==
    <<<<" ", " ", " ", " ", " ", " ", " ", " ", " ">>,
      <<" ", " ", "B", "B", "B", "B", "B", " ", " ">>,
      <<" ", " ", " ", " ", " ", "Y", " ", " ", " ">>,
      <<" ", " ", " ", " ", " ", " ", " ", " ", " ">>,
      <<" ", " ", " ", " ", " ", " ", " ", " ", " ">>>>

LAYER_3 ==
    <<<<" ", " ", " ", " ", " ", " ", " ", " ", " ">>,
      <<" ", " ", " ", "B", "B", "B", " ", " ", " ">>,
      <<" ", " ", " ", " ", " ", " ", " ", " ", " ">>,
      <<" ", " ", " ", " ", " ", " ", " ", " ", " ">>,
      <<" ", " ", " ", " ", " ", " ", " ", " ", " ">>>>

LAYERS == <<LAYER_0, LAYER_1, LAYER_2, LAYER_3>>

\* the line of n letters that has ch at position pos (from 1) and fill elsewhere
LineWith(n, fill, pos, ch) == [i \in 1..n |-> IF i = pos THEN ch ELSE fill]

BlockLetters == {"R", "Y", "G", " ", "x", "r", "0"}

\* positions at both ends of the grid and beyond it
Ends(size, extra) == {1, size} \cup ((size + 1) .. (size + extra))

BlockLines ==
    {LineWith(n, fill, pos, ch) :
        n \in {0, 1} \cup ((GRID_SIZE_X - 1) .. (GRID_SIZE_X + ExtraCols)),
        fill \in {" ", "W"},
        pos \in Ends(GRID_SIZE_X, ExtraCols),
        ch \in BlockLetters}

\* the other lines of a layer: blank, or planks with one character that is no
\* material
BlockRows == {LineWith(GRID_SIZE_X, " ", 0, " "), LineWith(GRID_SIZE_X, "W", 2, "x")}

\* layers of m lines, one of them from BlockLines
BlockLayers ==
    {[i \in 1..m |-> IF i = r THEN line ELSE other] :
        m \in {1} \cup (GRID_SIZE_Y .. (GRID_SIZE_Y + ExtraRows)),
        r \in Ends(GRID_SIZE_Y, ExtraRows),
        line \in BlockLines,
        other \in BlockRows}
    \cup {<< >>}

InitBlocks ==
    /\ phase = "blocks"
    /\ \E n \in 0..(MaxLayers - 1), last \in BlockLayers :
          layers \in {SubSeq(LAYERS, 1, n), SubSeq(LAYERS, 1, n) \o <<last>>}
    /\ objects = << >>
    /\ light = NoLight
    /\ ray = NoRay
    /\ isect = "none"
    /\ shadow = "none"
    /\ IdleCast
    /\ IdleRender
    /\ IdleSample

ApplyCreateCubes ==
    /\ phase = "blocks"
    /\ objects' = CreateCubesFromLayers(layers)
    /\ phase' = "blocks_done"
    /\ UNCHANGED <<layers, emissive_sum, sample, light, ray, isect, shadow, stack,
                   result, calls, leaves, returned, refracted, pixel_buffer,
                   framebuffer, row_x, copy_i>>

NextBlocks == ApplyCreateCubes

SpecBlocks == InitBlocks /\ [][NextBlocks]_vars

\* the letters get_material_from_letter knows
Recognised == {"R", "B", "I", "G", "Y", "P", "C", "W", "K"}

\* the cells <<layer, row, column>> of the grid that the layers fill, from 0
GridCells(lyrs) ==
    {c \in (0 .. (Len(lyrs) - 1)) \X (0 .. (GRID_SIZE_Y - 1)) \X (0 .. (GRID_SIZE_X - 1)) :
        /\ c[2] < Len(lyrs[c[1] + 1])
        /\ c[3] < Len(lyrs[c[1] + 1][c[2] + 1])}

LetterAt(lyrs, c) == lyrs[c[1] + 1][c[2] + 1][c[3] + 1]

\* the centre that belongs to a cell: x from the column, y from the layer, z
\* from the row
CentreOf(c) ==
    Vec(c[3] * 5000 - 20000, c[1] * 5000, c[2] * 5000 - 10000)

\* the cell a centre belongs to
CellAt(center) ==
    <<center.y \div 5000, (center.z + 10000) \div 5000, (center.x + 20000) \div 5000>>

\* layer, then row, then column order
CellBefore(a, b) ==
    \/ a[1] < b[1]
    \/ a[1] = b[1] /\ a[2] < b[2]
    \/ a[1] = b[1] /\ a[2] = b[2] /\ a[3] < b[3]

\* every position of the layers, in the grid or not
AllCells(lyrs) ==
    {c \in (0 .. (Len(lyrs) - 1)) \X (0 .. (GRID_SIZE_Y + ExtraRows - 1))
           \X (0 .. (GRID_SIZE_X + ExtraCols - 1)) :
        /\ c[2] < Len(lyrs[c[1] + 1])
        /\ c[3] < Len(lyrs[c[1] + 1][c[2] + 1])}

(* C12: create_cubes_from_layers yields exactly one cube for each recognised  *)
(* letter (R, B, I, G, Y, P, C, W, K) in a cell of the GRID_SIZE_X by         *)
(* GRID_SIZE_Y grid of each layer and no cube for a space, for any other      *)
(* character or for a letter outside the grid; the cubes come in layer, then  *)
(* row, then column order, each of size CUBE_SIZE, with the material of its   *)
(* letter and a centre fixed by its (column, layer, row), and two different   *)
(* cells never have the same centre.                                          *)
C12_OneCubePerLetter ==
    phase = "blocks_done" =>
        LET cells == GridCells(layers)
            lettered == {c \in cells : LetterAt(layers, c) \in Recognised}
        IN  /\ Len(objects) = Cardinality(lettered)
            /\ {CellAt(objects[i].center) : i \in 1..Len(objects)} = lettered
            /\ \A i \in 1..Len(objects) :
                  /\ objects[i].center = CentreOf(CellAt(objects[i].center))
                  /\ objects[i].size = CUBE_SIZE
                  /\ objects[i].material =
                        GetMaterialFromLetter(
                            LetterAt(layers, CellAt(objects[i].center))).value
                  /\ i < Len(objects) =>
                        CellBefore(CellAt(objects[i].center),
                                   CellAt(objects[i + 1].center))
            /\ \A c \in cells : CellAt(CubeCenter(c[3], c[2], c[1])) = c
            /\ \A c \in AllCells(layers) :
                  (c \notin cells \/ LetterAt(layers, c) \notin Recognised) =>
                      \A i \in 1..Len(objects) : objects[i].center # CentreOf(c)

\* two layers, the second with a letter in the last column of the grid that
\* got a cube, a letter right of the grid that got none, and a character in
\* the grid that is no material
C12_Witness ==
    /\ phase = "blocks_done"
    /\ Len(layers) = 2
    /\ \E c \in GridCells(layers), d \in AllCells(layers) \ GridCells(layers) :
          /\ c[1] = 1 /\ c[3] = GRID_SIZE_X - 1
          /\ LetterAt(layers, c) = "W"
          /\ \E i \in 1..Len(objects) : objects[i].center = CentreOf(c)
          /\ d[1] = 1 /\ d[3] = GRID_SIZE_X
          /\ LetterAt(layers, d) = "Y"
    /\ \E c \in GridCells(layers) : LetterAt(layers, c) = "x"
    /\ Len(objects) > GRID_SIZE_X * GRID_SIZE_Y

----------------------------------------------------------------------------
(* cast_ray's sum over the emissive cubes (main.rs 180-214), applied to the   *)
(* nearest hit of a ray on a cube at the origin with up to MaxExtras more     *)
(* cubes around it: emissive cubes at both ends of the range of 0.01 to 10.0, *)
(* and opaque cubes in the way                                                *)

MaxExtras == 2

GatherCubes ==
    {Cube(Vec(0, EMISSIVE_NEAR + CubeHalf, 0), 2 * CubeHalf, Glow),
     Cube(Vec(60, 150, 0), 2 * CubeHalf, Glow),
     Cube(Vec(0, 50, 0), 2 * CubeHalf, Glow),
     Cube(Vec(-200, -100, 0), 2 * CubeHalf, Glow),
     Cube(Vec(0, EMISSIVE_FAR + CubeHalf, 0), 2 * CubeHalf, Glow),
     Cube(Vec(0, EMISSIVE_FAR + CubeHalf - 1, 0), 2 * CubeHalf, Glow),
     Cube(Vec(0, 4 * CubeHalf + 3, 0), 2 * CubeHalf, Matte),
     Cube(Vec(30, 75, 0), 2 * CubeHalf, Matte)}

\* the sequences of up to n cubes of GatherCubes
RECURSIVE GatherExtras(_)
GatherExtras(n) ==
    IF n = 0 THEN {<< >>}
    ELSE GatherExtras(n - 1) \cup
         {Append(e, c) : e \in {f \in GatherExtras(n - 1) : Len(f) = n - 1},
                         c \in GatherCubes}

GatherRays ==
    {[origin |-> PtOfVec(Vec(a, CubeHalf + 3, 0)), direction |-> D] :
        a \in Coords(1),
        D \in {Vec(0, -1, 0), Vec(1, -2, 0), Vec(-1, -1, 0)}}
    \cup
    {[origin |-> PtOfVec(Vec(-(CubeHalf + 3), 0, 0)), direction |-> Vec(1, 0, 0)]}

InitEmissive ==
    /\ phase = "emissive"
    /\ \E m \in {Matte, Glow}, extra \in GatherExtras(MaxExtras) :
          objects = <<Cube(VZero, 2 * CubeHalf, m)>> \o extra
    /\ light = NoLight
    /\ ray \in GatherRays
    /\ isect = "none"
    /\ shadow = "none"
    /\ IdleCast
    /\ IdleRender
    /\ IdleBlocks
    /\ IdleSample

\* the hit cast_ray shades
EmissiveFindHit ==
    /\ phase = "emissive"
    /\ isect' = NearestHit(objects, ray.origin, ray.direction)
    /\ phase' = "emissive_hit"
    /\ UNCHANGED <<layers, emissive_sum, sample, objects, light, ray, shadow, stack,
                   result, calls, leaves, returned, refracted, pixel_buffer,
                   framebuffer, row_x, copy_i>>

\* emissive_light after the loop, for a hit without texture and normal map
ApplyEmissiveLoop ==
    /\ phase = "emissive_hit"
    /\ isect.is_intersecting
    /\ emissive_sum' = EmissiveLoop(objects, 1, isect, isect.normal,
                                    isect.material.diffuse)
    /\ phase' = "gathered"
    /\ UNCHANGED <<layers, sample, objects, light, ray, isect, shadow, stack,
                   result, calls, leaves, returned, refracted, pixel_buffer,
                   framebuffer, row_x, copy_i>>

NextEmissive == EmissiveFindHit \/ ApplyEmissiveLoop

SpecEmissive == InitEmissive /\ [][NextEmissive]_vars

\* the hit in isect is the hit of the ray on objects[k]
HitIs(k) ==
    /\ RayIntersect(objects[k], ray.origin, ray.direction).is_intersecting
    /\ RayIntersect(objects[k], ray.origin, ray.direction) = isect

\* the index of the cube that was hit: the first of the list with the hit
Struck == CHOOSE k \in 1..Len(objects) : HitIs(k) /\ \A j \in 1..(k - 1) : ~HitIs(j)

\* from the hit point to the centre of objects[k]
ToCentre(k) == VecTo(objects[k].center, isect.point)

\* the centre of objects[k] is at most 10.0 from the hit point
Within10(k) ==
    LET far == (EMISSIVE_FAR \div 1000) * (EMISSIVE_FAR \div 1000)
                  * isect.point.w * isect.point.w
    IN  \/ Dot6(ToCentre(k)) < far
        \/ Dot6(ToCentre(k)) = far /\ Rem6(ToCentre(k)) = 0

\* the centre of objects[k] is less than 10.0 from the hit point
Nearer10(k) ==
    Dot6(ToCentre(k)) < (EMISSIVE_FAR \div 1000) * (EMISSIVE_FAR \div 1000)
                           * isect.point.w * isect.point.w

\* the centre of objects[k] is more than 0.01 from the hit point
NotAtHit(k) == Longer(ToCentre(k), EMISSIVE_NEAR * isect.point.w)

\* objects[j] intersects the occlusion ray of objects[k] closer than the centre
\* of objects[k]
InTheWay(j, k) ==
    LET emissive_dir == DirNorm(ToCentre(k))
    IN  Blocks(RayIntersect(objects[j], OffsetOrigin(isect, emissive_dir), emissive_dir),
               DistTo(objects[k].center, isect.point))

Occluded(k) ==
    \E j \in 1..Len(objects) : ~objects[j].material.is_emissive /\ InTheWay(j, k)

\* the term of objects[k] in the sum
TermOf(k) ==
    CProd(CScale(objects[k].material.emission_color,
                 CMul(CMul(Max0(Dot(isect.normal, Normalized100(DirNorm(ToCentre(k))))),
                           objects[k].material.emission_intensity),
                      Attenuation(ToCentre(k), isect.point.w))),
          isect.material.diffuse)

RECURSIVE SumTerms(_)
SumTerms(S) ==
    IF S = {} THEN VZero
    ELSE LET k == CHOOSE i \in S : TRUE
         IN  VAdd(TermOf(k), SumTerms(S \ {k}))

\* the emissive cubes other than the hit cube, not at the hit point and not
\* occluded
Others ==
    {k \in 1..Len(objects) :
        /\ k # Struck
        /\ objects[k].material.is_emissive
        /\ NotAtHit(k)
        /\ ~Occluded(k)}

----------------------------------------------------------------------------
(* cast_ray's texture and normal map lookups (main.rs 129-136, 153-160),      *)
(* applied to the hit of one ray on one cube that has a texture or a normal   *)
(* map, for textures of up to MaxTexture by MaxTexture pixels                 *)

MaxTexture == 3

\* (u * width as f32) as u32: the cast truncates toward zero and takes a
\* negative value or NaN to 0
Texel(u, width) ==
    IF ~IsFinite(u) \/ u.n <= 0 THEN 0 ELSE (u.n * width) \div u.d

\* planks with a texture, and the same with a normal map instead
TexturedMaterials ==
    {GetMaterialFromLetter("W").value,
     [Matte EXCEPT !.normal_map_id = "assets/normal.png"]}

InitTexture ==
    /\ phase = "intersect"
    /\ \E m \in TexturedMaterials : objects = <<Cube(VZero, 2 * CubeHalf, m)>>
    /\ light = NoLight
    /\ \E o \in {Vec(a, b, c) : a \in Coords(CubeHalf + 1),
                                b \in Coords(CubeHalf + 1),
                                c \in Coords(1)},
          D \in Dirs(1, 1) :
            ray = [origin |-> PtOfVec(o), direction |-> D]
    /\ isect = "none"
    /\ shadow = "none"
    /\ IdleCast
    /\ IdleRender
    /\ IdleBlocks
    /\ IdleSample

\* tx and ty for a texture of width by height pixels
SampleTexture(width, height) ==
    /\ phase = "intersected"
    /\ isect.is_intersecting
    /\ isect.material.texture_id # "None" \/ isect.material.normal_map_id # "None"
    /\ sample' = [width |-> width, height |-> height,
                  tx |-> Texel(isect.u, width), ty |-> Texel(isect.v, height)]
    /\ phase' = "sampled"
    /\ UNCHANGED <<layers, emissive_sum, objects, light, ray, isect, shadow, stack,
                   result, calls, leaves, returned, refracted, pixel_buffer,
                   framebuffer, row_x, copy_i>>

NextTexture ==
    \/ ApplyRayIntersect
    \/ \E width \in 1..MaxTexture, height \in 1..MaxTexture : SampleTexture(width, height)

SpecTexture == InitTexture /\ [][NextTexture]_vars

(* C14: whenever cast_ray samples a texture or a normal map for a hit, the    *)
(* pixel coordinates tx = trunc(u * width) and ty = trunc(v * height) it      *)
(* passes to the texture manager satisfy 0 <= tx < width and                  *)
(* 0 <= ty < height, for every hit point on a face of the cube, its edges     *)
(* (where u or v is 1) included.                                              *)
C14_TexelInTexture ==
    phase = "sampled" =>
        /\ 0 <= sample.tx /\ sample.tx < sample.width
        /\ 0 <= sample.ty /\ sample.ty < sample.height

====
